---- MODULE Spec2Model ----
(***************************************************************************)
(* State-machine model of the Slack bot's session coordinator and tool     *)
(* approval gate (SlackHandler in slack-handler.ts, isToolAllowed in       *)
(* config.ts).                                                             *)
(*                                                                         *)
(* Strings the code inspects character by character (tool names, allow     *)
(* patterns, Bash commands) are sequences of one-character strings.        *)
(* Calls to the Slack client whose result the code discards (the status    *)
(* update of an approval prompt, the follow-up notice) are recorded at the *)
(* moment the call is issued.                                              *)
(***************************************************************************)
EXTENDS Integers, Sequences, FiniteSets, TLC

(* ---------------- bounds ---------------- *)
MaxTurns == 3
MaxRequests == 1
MaxClicks == 2
MaxNewMessages == 1
MaxCalls == 6
MaxMinutes == 6
MaxTeardownTurns == 2
MaxPairCalls == 4
MaxReactionTurns == 2
MaxTodos == 2
MaxSessionMinutes == 40
MaxSessionTurns == 2
MaxPatterns == 2
MaxProgressTurns == 1
MaxSinkCalls == 4

Sessions == {"s1", "s2"}
TurnIds == 1..MaxTurns
RequestIds == 1..MaxRequests
ClickIds == 1..MaxClicks

(* ---------------- strings ---------------- *)
EmptyStr == << >>
Space == <<" ">>
SpaceStar == <<" ", "*">>
BashPrefix == <<"B", "a", "s", "h", ":">>
McpPrefix == <<"m", "c", "p", "_", "_">>
McpStar == <<"m", "c", "p", "_", "_", "*">>
Bash == <<"B", "a", "s", "h">>
Read == <<"R", "e", "a", "d">>

startsWith(s, p) == Len(p) <= Len(s) /\ SubSeq(s, 1, Len(p)) = p
endsWith(s, p) == Len(p) <= Len(s) /\ SubSeq(s, Len(s) - Len(p) + 1, Len(s)) = p
slice(s, from) == SubSeq(s, from + 1, Len(s))
sliceEnd(s, n) == SubSeq(s, 1, Len(s) - n)

(* parseAllowedTools: the default list, and one ALLOWED_TOOLS setting *)
DefaultAllowedTools ==
  << Read, <<"E", "d", "i", "t">>, <<"W", "r", "i", "t", "e">>,
     <<"G", "l", "o", "b">>, <<"G", "r", "e", "p">>, <<"T", "a", "s", "k">>,
     BashPrefix \o <<"g", "i", "t">> \o SpaceStar,
     BashPrefix \o <<"n", "p", "m">> \o SpaceStar,
     BashPrefix \o <<"n", "p", "x">> \o SpaceStar,
     BashPrefix \o <<"b", "d">> \o SpaceStar,
     BashPrefix \o <<"g", "l", "a", "b">> \o SpaceStar >>
parseAllowedTools == {DefaultAllowedTools, << BashPrefix \o <<"l", "s">>, McpStar >>}

\* (input.command as string) || ''
Undefined == <<"undefined">>
inputCommand(input) == IF input.command = Undefined THEN EmptyStr ELSE input.command

\* command.startsWith(prefix + ' ') || command === prefix
prefixMatchesLoose(command, prefix) == startsWith(command, prefix)
prefixMatches(command, prefix) == startsWith(command, prefix \o Space) \/ command = prefix

patternMatches(pattern, toolName, input) ==
  \/ pattern = toolName
  \/ /\ startsWith(pattern, BashPrefix)
     /\ toolName = Bash
     /\ LET cmdPattern == slice(pattern, 5)
            command == inputCommand(input)
        IN IF endsWith(cmdPattern, SpaceStar)
           THEN LET prefix == sliceEnd(cmdPattern, 2)
                IN prefixMatches(command, prefix)
           ELSE cmdPattern = command
  \/ pattern = McpStar /\ startsWith(toolName, McpPrefix)

isToolAllowedIn(allowed, toolName, input) ==
  \E i \in 1..Len(allowed) : patternMatches(allowed[i], toolName, input)

(* ---------------- tool invocations the agent makes ---------------- *)
GitStatus == <<"g", "i", "t", " ", "s">>
RmRf == <<"r", "m", " ", "-", "r", "f">>
Ls == <<"l", "s">>
NoInput == [command |-> <<"?">>]

(* ---------------- permission responses ---------------- *)
Unsettled == [behavior |-> "unsettled", updatedInput |-> NoInput, message |-> ""]
Allow(input) == [behavior |-> "allow", updatedInput |-> input, message |-> ""]
Deny(msg) == [behavior |-> "deny", updatedInput |-> NoInput, message |-> msg]

MsgUserDenied == "User denied this action"
MsgTimedOut == "Permission request timed out"

VARIABLES
  allowedTools,       \* config.allowedTools
  nextTurn,           \* number of handleMessage calls that reached the cancellation step
  turnSession,        \* turn -> session key
  turnPc,             \* turn -> "none" | "running" | "exiting" | "done"
  turnEnd,            \* turn -> terminal status rendered
  aborted,            \* turn -> abortController.signal.aborted
  activeControllers,  \* session -> turn whose controller is registered, 0 when absent
  lastEvent,          \* session -> last coordinator event: "none" | "begin" | "finally"
  nextRequest,        \* number of permission-handler invocations
  request,            \* invocation -> [toolName, input, sessionKey]
  requestPc,          \* invocation -> "none" | "posting" | "waiting" | "returned"
  response,           \* invocation -> value delivered to the agent (Unsettled until then)
  resolveCalls,       \* invocation -> who called resolve, in order
  prompts,            \* invocations whose approval prompt was posted
  promptUpdates,      \* invocation -> status updates issued on the prompt, in order
  notices,            \* invocation -> follow-up notices issued, in order
  pendingApprovals,   \* approval id -> stored record (function on the ids present)
  timer,              \* invocation -> "none" | "armed" | "fired"
  nextClick,          \* number of button clicks received
  lastClick,          \* payload of the click received last: [action_id, value, input]
  click,              \* click being handled -> payload
  clickPc,            \* click -> "none" | "update" | "done"
  clickPending,       \* click -> record read by pendingApprovals.get
  at,                 \* turn -> where the try block of handleMessage stands
  terminal,           \* turn -> indicator and detail rendered by the terminal path
  incoming,           \* session -> "notice" while a message with files awaits its notice post
  taskListMessages,   \* MessageManager: session -> ts of the task list message, 0 when absent
  toolOutputMessages, \* session -> ts of the tool output message, 0 when absent
  statusMessages,     \* session -> ts of the status message, 0 when absent
  accumulatedToolOutput, \* session -> tool summaries of the window, << >> when absent
  textMessageAfterTool,  \* session -> a text was posted after the last tool output
  toolOutputExpanded, \* session -> the older calls are shown (absent reads as FALSE)
  posted,             \* kinds of the messages created in Slack; a message's ts is its index
  deletedTs,          \* ts of the messages removed by chat.delete
  lastCall,           \* the call to the Slack client issued last
  controls,           \* sessions for which a message with a toggle button was rendered
  inFlight,           \* session -> the MessageManager method suspended in an await
  nextCall,           \* number of MessageManager render calls started
  lastReturn,         \* session -> the Slack call that settled last and how
  now,                \* minutes since the start
  sessionId,          \* session -> session.sessionId is set
  sessionMaps,        \* session -> the per-session maps of SlackHandler that hold an entry
  cleanupTimer,       \* turn -> the timeout its finally block started
  currentReactions,   \* session -> Slack name of the tracked reaction, "" when absent
  reactions,          \* session -> names of the bot's reactions on the original message
  reacting,           \* turn -> the updateMessageReaction call it is suspended in, and
                      \*         how its last call ended
  sinkLog,            \* the calls to reactions.remove and reactions.add, in order
  newTodos,           \* turn -> the task list of the TodoWrite it is handling
  sessions,           \* ClaudeHandler: session key -> the sessions map holds a session
  lastActivity,       \* session -> minute stored in session.lastActivity
  lastMessage         \* session -> minute of the last message handled for it

turnVars == <<nextTurn, turnSession, turnPc, turnEnd, aborted, activeControllers, lastEvent>>
requestVars == <<nextRequest, request, requestPc, prompts>>
gateVars == <<response, resolveCalls, promptUpdates, notices, pendingApprovals>>
clickVars == <<nextClick, lastClick, click, clickPc, clickPending>>
streamVars == <<at, terminal, incoming>>
slotVars == <<taskListMessages, toolOutputMessages, statusMessages>>
windowVars == <<slotVars, accumulatedToolOutput, textMessageAfterTool, toolOutputExpanded,
                posted, deletedTs, lastCall, controls, inFlight, nextCall, lastReturn>>
reactionVars == <<currentReactions, reactions, reacting, sinkLog, newTodos>>
sessionVars == <<sessions, lastActivity, lastMessage>>
teardownVars == <<now, sessionId, sessionMaps, cleanupTimer, reactionVars, sessionVars>>
vars == <<allowedTools, turnVars, requestVars, gateVars, timer, clickVars, streamVars,
          windowVars, teardownVars>>

NoRequest == [toolName |-> EmptyStr, input |-> NoInput, sessionKey |-> "none"]
NoClick == [action_id |-> "none", value |-> 0, input |-> NoInput]
NoPending == [input |-> NoInput, sessionKey |-> "none"]
NoTerminal == [indicator |-> "none", detail |-> FALSE]
NoCall == [method |-> "none", branch |-> "none", ts |-> 0, button |-> FALSE]
NoTimer == [pc |-> "none", due |-> 0]
NoReturn == [method |-> "none", branch |-> "none", outcome |-> "none"]
NoReaction == [pc |-> "idle", emoji |-> "", name |-> "", current |-> "", result |-> "none"]
NoSlackCall == [op |-> "none", ts |-> 0, kind |-> "none", blocks |-> << >>]

Init ==
  /\ allowedTools \in parseAllowedTools
  /\ nextTurn = 0
  /\ turnSession = [t \in TurnIds |-> "none"]
  /\ turnPc = [t \in TurnIds |-> "none"]
  /\ turnEnd = [t \in TurnIds |-> "none"]
  /\ aborted = [t \in TurnIds |-> FALSE]
  /\ activeControllers = [s \in Sessions |-> 0]
  /\ lastEvent = [s \in Sessions |-> "none"]
  /\ nextRequest = 0
  /\ request = [c \in RequestIds |-> NoRequest]
  /\ requestPc = [c \in RequestIds |-> "none"]
  /\ response = [c \in RequestIds |-> Unsettled]
  /\ resolveCalls = [c \in RequestIds |-> << >>]
  /\ prompts = {}
  /\ promptUpdates = [c \in RequestIds |-> << >>]
  /\ notices = [c \in RequestIds |-> << >>]
  /\ pendingApprovals = << >>
  /\ timer = [c \in RequestIds |-> "none"]
  /\ nextClick = 0
  /\ lastClick = NoClick
  /\ click = [h \in ClickIds |-> NoClick]
  /\ clickPc = [h \in ClickIds |-> "none"]
  /\ clickPending = [h \in ClickIds |-> NoPending]
  /\ at = [t \in TurnIds |-> "start"]
  /\ terminal = [t \in TurnIds |-> NoTerminal]
  /\ incoming = [s \in Sessions |-> "none"]
  /\ taskListMessages = [s \in Sessions |-> 0]
  /\ toolOutputMessages = [s \in Sessions |-> 0]
  /\ statusMessages = [s \in Sessions |-> 0]
  /\ accumulatedToolOutput = [s \in Sessions |-> << >>]
  /\ textMessageAfterTool = [s \in Sessions |-> FALSE]
  /\ toolOutputExpanded = [s \in Sessions |-> FALSE]
  /\ posted = << >>
  /\ deletedTs = {}
  /\ lastCall = NoSlackCall
  /\ controls = {}
  /\ inFlight = [s \in Sessions |-> NoCall]
  /\ nextCall = 0
  /\ lastReturn = [s \in Sessions |-> NoReturn]
  /\ now = 0
  /\ sessionId = [s \in Sessions |-> FALSE]
  /\ sessionMaps = [s \in Sessions |-> {}]
  /\ cleanupTimer = [t \in TurnIds |-> NoTimer]
  /\ currentReactions = [s \in Sessions |-> ""]
  /\ reactions = [s \in Sessions |-> {}]
  /\ reacting = [t \in TurnIds |-> NoReaction]
  /\ sinkLog = << >>
  /\ newTodos = [t \in TurnIds |-> << >>]
  /\ sessions = [s \in Sessions |-> FALSE]
  /\ lastActivity = [s \in Sessions |-> 0]
  /\ lastMessage = [s \in Sessions |-> 0]

(* ---------------- session activity coordinator ---------------- *)

\* existingController.abort()
abortDropped(t) == aborted
abort(t) == [aborted EXCEPT ![t] = TRUE]

\* the maps of SlackHandler keyed by the session key

set(s, names) == [sessionMaps EXCEPT ![s] = @ \cup names]

\* updateMessageReaction: nothing without the original message; otherwise
\* the reaction is changed and tracked
updateMessageReaction(s) ==
  IF "originalMessages" \in sessionMaps[s] THEN set(s, {"currentReactions"}) ELSE sessionMaps

\* 5 * 60 * 1000 ms, in minutes
TeardownDelay == 5

\* if (session?.sessionId) setTimeout(..., 5 * 60 * 1000)
scheduled(s) == sessionId[s]

\* getSession, and createSession when the sessions map has none for the key:
\* the new session has no session id and lastActivity is the time of creation
getOrCreateSession(s) ==
  IF sessions[s]
  THEN UNCHANGED <<sessions, lastActivity, sessionId>>
  ELSE /\ sessions' = [sessions EXCEPT ![s] = TRUE]
       /\ lastActivity' = [lastActivity EXCEPT ![s] = now]
       /\ sessionId' = [sessionId EXCEPT ![s] = FALSE]

\* handleMessage up to the creation of the session
HandleMessage(s) ==
  /\ nextTurn < MaxTurns
  /\ LET t == nextTurn + 1
         existingController == activeControllers[s]
     IN /\ nextTurn' = t
        /\ aborted' = IF existingController # 0
                      THEN abort(existingController)
                      ELSE aborted
        /\ activeControllers' = [activeControllers EXCEPT ![s] = t]
        /\ turnSession' = [turnSession EXCEPT ![t] = s]
        /\ turnPc' = [turnPc EXCEPT ![t] = "running"]
        /\ lastEvent' = [lastEvent EXCEPT ![s] = "begin"]
  /\ incoming' = [incoming EXCEPT ![s] = "none"]
  /\ sessionMaps' = set(s, {"originalMessages"})
  /\ getOrCreateSession(s)
  /\ lastMessage' = [lastMessage EXCEPT ![s] = now]
  /\ UNCHANGED <<windowVars, at, terminal, allowedTools, turnEnd, requestVars, gateVars, timer, clickVars,
                 now, cleanupTimer, reactionVars>>

\* the stream loop ends: the stream is exhausted, or a message arrives while
\* the signal is aborted and the loop breaks; the code after the loop renders
\* the completed status
StreamEnds(t) ==
  /\ turnPc[t] = "running"
  /\ turnPc' = [turnPc EXCEPT ![t] = "exiting"]
  /\ turnEnd' = [turnEnd EXCEPT ![t] = "completed"]
  /\ sessionMaps' = updateMessageReaction(turnSession[t])
  /\ UNCHANGED <<now, sessionId, cleanupTimer, reactionVars, sessionVars>>
  /\ UNCHANGED <<windowVars, streamVars, allowedTools, nextTurn, turnSession, aborted, activeControllers,
                 lastEvent, requestVars, gateVars, timer, clickVars>>

\* the stream throws: an AbortError (only once the controller is aborted) or
\* another fault; the catch block renders the cancelled or the error status
StreamThrows(t, name) ==
  /\ turnPc[t] = "running"
  /\ name = "AbortError" => aborted[t]
  /\ turnPc' = [turnPc EXCEPT ![t] = "exiting"]
  /\ turnEnd' = [turnEnd EXCEPT ![t] = IF name # "AbortError" THEN "error" ELSE "cancelled"]
  /\ sessionMaps' = updateMessageReaction(turnSession[t])
  /\ UNCHANGED <<now, sessionId, cleanupTimer, reactionVars, sessionVars>>
  /\ UNCHANGED <<windowVars, streamVars, allowedTools, nextTurn, turnSession, aborted, activeControllers,
                 lastEvent, requestVars, gateVars, timer, clickVars>>

\* the finally block of handleMessage
Finally(t) ==
  /\ turnPc[t] = "exiting"
  /\ activeControllers' = [activeControllers EXCEPT ![turnSession[t]] = 0]
  /\ turnPc' = [turnPc EXCEPT ![t] = "done"]
  /\ lastEvent' = [lastEvent EXCEPT ![turnSession[t]] = "finally"]
  /\ cleanupTimer' = IF scheduled(turnSession[t])
                     THEN [cleanupTimer EXCEPT ![t] = [pc |-> "armed", due |-> now + TeardownDelay]]
                     ELSE cleanupTimer
  /\ UNCHANGED <<now, sessionId, sessionMaps, reactionVars, sessionVars>>
  /\ UNCHANGED <<windowVars, streamVars, allowedTools, nextTurn, turnSession, turnEnd, aborted,
                 requestVars, gateVars, timer, clickVars>>

(* ---------------- the try block of handleMessage, step by step ---------------- *)
\* Every step runs from one await to the next: `at` names the call the turn is
\* suspended in. The calls to the Slack client made here return normally.

\* a message with attached files: the files are downloaded and the
\* "Processing n file(s)" notice is posted, before the session key is computed
FileNotice(s) ==
  /\ incoming[s] = "none"
  /\ incoming' = [incoming EXCEPT ![s] = "notice"]
  /\ UNCHANGED <<windowVars, teardownVars, at, terminal, allowedTools, turnVars, requestVars, gateVars, timer, clickVars>>

StreamFrame == <<windowVars, now, sessionId, cleanupTimer, reactionVars, sessionVars, terminal, incoming, allowedTools, nextTurn, turnSession, turnPc, turnEnd,
                 aborted, activeControllers, lastEvent, requestVars, gateVars, timer, clickVars>>

goto(t, from, to) ==
  /\ turnPc[t] = "running"
  /\ at[t] \in from
  /\ at' = [at EXCEPT ![t] = to]
  /\ UNCHANGED StreamFrame

\* say('Thinking...'): the status message of the turn
PostThinking(t) == goto(t, {"start"}, "thinking") /\ UNCHANGED sessionMaps

\* updateMessageReaction(thinking); the permission handler is created and the
\* first message of the stream requested
ThinkingReaction(t) ==
  /\ goto(t, {"thinking"}, "stream")
  /\ sessionMaps' = updateMessageReaction(turnSession[t])

\* if (abortController.signal.aborted) break
loopBreaks(t) == aborted[t]

\* an assistant message with a tool use arrives: the status becomes 'Working...'
ShowWorking(t) == ~loopBreaks(t) /\ goto(t, {"stream"}, "working") /\ UNCHANGED sessionMaps

\* updateMessageReaction(working)
WorkingReaction(t) ==
  /\ goto(t, {"working"}, "reacted")
  /\ sessionMaps' = updateMessageReaction(turnSession[t])

\* handleTodoUpdate: nothing without a session id; otherwise the task list
\* message is updated or created
TodoUpdate(t) ==
  /\ goto(t, {"reacted"}, "todo")
  /\ sessionMaps' = IF sessionId[turnSession[t]] THEN set(turnSession[t], {"todoMessages"})
                    ELSE sessionMaps

\* accumulateAndDisplayToolOutput: the summary is accumulated and the tool
\* message updated or created
ToolOutput(t) ==
  /\ goto(t, {"reacted", "todo"}, "tool")
  /\ sessionMaps' = set(turnSession[t], {"accumulatedToolOutput", "toolMessages"})

\* an assistant text message, or the final result, arrives and is posted
PostText(t) == ~loopBreaks(t) /\ goto(t, {"stream"}, "text") /\ UNCHANGED sessionMaps

\* the handling of one message is over: the loop requests the next one
NextMessage(t) == goto(t, {"todo", "tool", "text"}, "stream") /\ UNCHANGED sessionMaps

\* the terminal path of a turn: status text, reaction and failure detail
Completed == [status |-> "completed", indicator |-> "white_check_mark", detail |-> FALSE]
ErrorOccurred == [status |-> "error", indicator |-> "x", detail |-> TRUE]
Cancelled == [status |-> "cancelled", indicator |-> "stop_button", detail |-> FALSE]

leave(t, cause, path) ==
  /\ turnPc[t] = "running"
  /\ at[t] = "stream"
  /\ at' = [at EXCEPT ![t] = cause]
  /\ turnPc' = [turnPc EXCEPT ![t] = "exiting"]
  /\ turnEnd' = [turnEnd EXCEPT ![t] = path.status]
  /\ terminal' = [terminal EXCEPT ![t] = [indicator |-> path.indicator, detail |-> path.detail]]
  /\ sessionMaps' = updateMessageReaction(turnSession[t])
  /\ UNCHANGED <<windowVars, now, sessionId, cleanupTimer, reactionVars, sessionVars, incoming, allowedTools, nextTurn, turnSession, aborted,
                 activeControllers, lastEvent, requestVars, gateVars, timer, clickVars>>

\* a message arrives while the signal is aborted: break, then the code after the loop
LoopBreaks(t) == loopBreaks(t) /\ leave(t, "break", Completed)

\* the stream is exhausted: the code after the loop
StreamExhausted(t) == leave(t, "exhausted", Completed)

\* the branch of the catch block
catchBranchCancelled(name) == Cancelled
catchBranch(name) == IF name # "AbortError" THEN ErrorOccurred ELSE Cancelled

\* the stream raises: an AbortError (only once the controller is aborted) or
\* another fault
StreamRaises(t, name) ==
  /\ name = "AbortError" => aborted[t]
  /\ leave(t, name, catchBranch(name))

(* ---------------- session id and teardown ---------------- *)
\* the agent's init message: streamQuery stores its session id in the session
SessionInit(t) ==
  /\ turnPc[t] = "running"
  /\ at[t] = "stream"
  /\ ~sessionId[turnSession[t]]
  /\ sessionId' = [sessionId EXCEPT ![turnSession[t]] = TRUE]
  /\ UNCHANGED <<windowVars, streamVars, allowedTools, turnVars, requestVars, gateVars, timer,
                 clickVars, now, sessionMaps, cleanupTimer, reactionVars, sessionVars>>

\* a minute passes; a timeout that is due runs first
Tick ==
  /\ now < MaxMinutes
  /\ \A t \in TurnIds : cleanupTimer[t].pc = "armed" => cleanupTimer[t].due > now
  /\ now' = now + 1
  /\ UNCHANGED <<windowVars, streamVars, allowedTools, turnVars, requestVars, gateVars, timer,
                 clickVars, sessionId, sessionMaps, cleanupTimer, reactionVars, sessionVars>>

\* the entries the callback deletes
deletes(s) ==
  [sessionMaps EXCEPT
     ![s] = @ \ {"todoMessages", "originalMessages", "currentReactions", "toolMessages",
                 "accumulatedToolOutput"}]

\* the callback of the timeout started by the finally block of turn t
TeardownFires(t) ==
  /\ cleanupTimer[t].pc = "armed"
  /\ cleanupTimer[t].due = now
  /\ cleanupTimer' = [cleanupTimer EXCEPT ![t].pc = "fired"]
  /\ sessionMaps' = deletes(turnSession[t])
  /\ currentReactions' = [currentReactions EXCEPT ![turnSession[t]] = ""]
  /\ UNCHANGED <<windowVars, streamVars, allowedTools, turnVars, requestVars, gateVars, timer,
                 clickVars, now, sessionId, reactions, reacting, sinkLog, newTodos, sessionVars>>

(* ---------------- inactive sessions ---------------- *)
\* 30 * 60 * 1000 ms and the period of the setInterval, in minutes
maxAge == 30
CleanupInterval == 5

\* now - session.lastActivity.getTime() > maxAge
inactive(s) == lastActivity[s] + maxAge < now'

\* the period of the interval passes and its callback runs
\* cleanupInactiveSessions: every session whose lastActivity is older than
\* maxAge is deleted from the sessions map
CleanupInactiveSessions ==
  /\ now + CleanupInterval <= MaxSessionMinutes
  /\ now' = now + CleanupInterval
  /\ sessions' = [s \in Sessions |-> sessions[s] /\ ~inactive(s)]
  /\ UNCHANGED <<windowVars, streamVars, allowedTools, turnVars, requestVars, gateVars, timer,
                 clickVars, sessionId, sessionMaps, cleanupTimer, reactionVars, lastActivity,
                 lastMessage>>

(* ---------------- reaction tracker ---------------- *)
\* the emoji the callers pass, written by their code points
ThinkingFace == "U+1F914"
Gear == "U+2699 U+FE0F"
WhiteCheckMark == "U+2705"
CrossMark == "U+274C"
StopButton == "U+23F9 U+FE0F"
Clipboard == "U+1F4CB"
Arrows == "U+1F504"

\* emojiMap[emoji] || emoji
emojiToSlackName(emoji) ==
  CASE emoji = ThinkingFace -> "thinking_face"
    [] emoji = Gear -> "gear"
    [] emoji = WhiteCheckMark -> "white_check_mark"
    [] emoji = CrossMark -> "x"
    [] emoji = StopButton -> "stop_button"
    [] emoji = Clipboard -> "clipboard"
    [] emoji = Arrows -> "arrows_counterclockwise"
    [] OTHER -> emoji

\* the emoji handleMessage passes at the call the turn stands at
siteEmoji(where) ==
  CASE where = "thinking" -> ThinkingFace
    [] where = "working" -> Gear
    [] where \in {"break", "exhausted"} -> WhiteCheckMark
    [] where = "AbortError" -> StopButton
    [] OTHER -> CrossMark

TerminalSites == {"break", "exhausted", "AbortError", "Error"}
ReactionSites == {"thinking", "working"} \cup TerminalSites

\* the caller goes on after the awaited updateMessageReaction: the stream is
\* requested, the tool uses of the message are handled, or the try block is
\* left for the finally block
continues(t) ==
  IF at[t] \in TerminalSites
  THEN /\ turnPc' = [turnPc EXCEPT ![t] = "exiting"]
       /\ at' = at
  ELSE /\ at' = [at EXCEPT ![t] = CASE at[t] = "thinking" -> "stream"
                                    [] at[t] = "working" -> "reacted"
                                    [] OTHER -> "todo"]
       /\ turnPc' = turnPc

\* the call of turn t returns; what it was called with and how it ended is kept
finished(t, emoji, result) ==
  reacting' = [reacting EXCEPT ![t] = [pc |-> "idle", emoji |-> emoji, name |-> "",
                                       current |-> "", result |-> result]]

sinkCall(op, s, name) == [op |-> op, session |-> s, name |-> name]

\* if (currentEmoji === slackEmoji) return
alreadyShownNever(currentEmoji, slackEmoji) == FALSE
alreadyShown(currentEmoji, slackEmoji) == currentEmoji = slackEmoji

\* updateMessageReaction up to its first await, or up to its return when there
\* is no original message or the emoji is the tracked one
updateMessageReactionStarts(t, emoji) ==
  LET s == turnSession[t]
      slackEmoji == emojiToSlackName(emoji)
      currentEmoji == currentReactions[s]
  IN IF "originalMessages" \notin sessionMaps[s]
     THEN /\ finished(t, emoji, "no_message") /\ continues(t)
          /\ UNCHANGED sinkLog
     ELSE IF alreadyShown(currentEmoji, slackEmoji)
     THEN /\ finished(t, emoji, "same") /\ continues(t)
          /\ UNCHANGED sinkLog
     ELSE /\ UNCHANGED <<at, turnPc>>
          /\ IF currentEmoji # ""
             THEN /\ sinkLog' = Append(sinkLog, sinkCall("remove", s, currentEmoji))
                  /\ reacting' = [reacting EXCEPT ![t] =
                        [pc |-> "remove", emoji |-> emoji, name |-> slackEmoji,
                         current |-> currentEmoji, result |-> "none"]]
             ELSE /\ sinkLog' = Append(sinkLog, sinkCall("add", s, slackEmoji))
                  /\ reacting' = [reacting EXCEPT ![t] =
                        [pc |-> "add", emoji |-> emoji, name |-> slackEmoji,
                         current |-> currentEmoji, result |-> "none"]]

ReactionFrame == <<windowVars, now, sessionId, cleanupTimer, sessionVars, newTodos, terminal, incoming,
                   allowedTools, nextTurn, turnSession, turnEnd, aborted, activeControllers,
                   lastEvent, requestVars, gateVars, timer, clickVars>>

\* the turn reaches one of the updateMessageReaction calls of handleMessage
SiteReaction(t) ==
  /\ turnPc[t] = "running"
  /\ at[t] \in ReactionSites
  /\ reacting[t].pc = "idle"
  /\ updateMessageReactionStarts(t, siteEmoji(at[t]))
  /\ UNCHANGED <<ReactionFrame, currentReactions, reactions, sessionMaps>>

\* reactions.remove settles: the reaction is gone, or it was not there, or the
\* call failed otherwise; the failure is ignored and reactions.add is called
RemoveSettles(t, outcome) ==
  LET s == turnSession[t]
      currentEmoji == reacting[t].current
  IN /\ reacting[t].pc = "remove"
     /\ CASE outcome = "ok" -> currentEmoji \in reactions[s]
          [] outcome = "no_reaction" -> currentEmoji \notin reactions[s]
          [] OTHER -> outcome = "error"
     /\ reactions' = IF outcome = "ok"
                     THEN [reactions EXCEPT ![s] = @ \ {currentEmoji}]
                     ELSE reactions
     /\ sinkLog' = Append(sinkLog, sinkCall("add", s, reacting[t].name))
     /\ reacting' = [reacting EXCEPT ![t].pc = "add"]
     /\ UNCHANGED <<ReactionFrame, currentReactions, sessionMaps, at, turnPc>>

\* this.currentReactions.set(sessionKey, slackEmoji)
currentReactionsSet(s, name, outcome) ==
  IF outcome \in {"ok", "already_reacted"}
  THEN [currentReactions EXCEPT ![s] = name]
  ELSE currentReactions

\* reactions.add settles: with already_reacted the reaction counts as added;
\* any other failure is caught and logged by the outer catch
AddSettles(t, outcome) ==
  LET s == turnSession[t]
      name == reacting[t].name
  IN /\ reacting[t].pc = "add"
     /\ CASE outcome = "ok" -> name \notin reactions[s]
          [] outcome = "already_reacted" -> name \in reactions[s]
          [] OTHER -> outcome = "error"
     /\ reactions' = IF outcome = "ok" THEN [reactions EXCEPT ![s] = @ \cup {name}]
                     ELSE reactions
     /\ currentReactions' = currentReactionsSet(s, name, outcome)
     /\ sessionMaps' = IF currentReactions'[s] # "" THEN set(s, {"currentReactions"})
                       ELSE sessionMaps
     /\ finished(t, reacting[t].emoji, IF outcome = "error" THEN "failed" ELSE "set")
     /\ continues(t)
     /\ UNCHANGED <<ReactionFrame, sinkLog>>

\* the try block is left on one of its terminal paths: the status message is
\* updated, and updateMessageReaction is called next
terminalPath(t, cause, path) ==
  /\ turnPc[t] = "running"
  /\ at[t] = "stream"
  /\ at' = [at EXCEPT ![t] = cause]
  /\ turnEnd' = [turnEnd EXCEPT ![t] = path.status]
  /\ terminal' = [terminal EXCEPT ![t] = [indicator |-> path.indicator, detail |-> path.detail]]
  /\ UNCHANGED <<windowVars, teardownVars, incoming, allowedTools, nextTurn, turnSession,
                 turnPc, aborted, activeControllers, lastEvent, requestVars, gateVars, timer,
                 clickVars>>

TerminalPath(t, cause) ==
  /\ cause = "break" => loopBreaks(t)
  /\ cause = "AbortError" => aborted[t]
  /\ terminalPath(t, cause, IF cause \in {"break", "exhausted"} THEN Completed
                            ELSE catchBranch(cause))

\* handleTodoUpdate up to the call of updateTaskProgressReaction: nothing
\* without a session id or without a significant change of the task list;
\* otherwise the task list message is updated or created
HandleTodoUpdate(t, todos, significant) ==
  LET rendered == sessionId[turnSession[t]] /\ significant
  IN /\ turnPc[t] = "running"
     /\ at[t] = "reacted"
     /\ at' = [at EXCEPT ![t] = IF rendered THEN "rendered" ELSE "todo"]
     /\ newTodos' = [newTodos EXCEPT ![t] = IF rendered THEN todos ELSE @]
     /\ sessionMaps' = IF rendered THEN set(turnSession[t], {"todoMessages"}) ELSE sessionMaps
     /\ UNCHANGED <<windowVars, now, sessionId, cleanupTimer, sessionVars, currentReactions,
                    reactions, reacting, sinkLog, terminal, incoming, allowedTools, nextTurn,
                    turnSession, turnPc, turnEnd, aborted, activeControllers, lastEvent,
                    requestVars, gateVars, timer, clickVars>>

\* the task lists of a TodoWrite: the status of each item
TodoLists ==
  UNION {[1..n -> {"pending", "in_progress", "completed"}] : n \in 0..MaxTodos}

countOf(todos, status) == Cardinality({i \in 1..Len(todos) : todos[i] = status})

\* the emoji updateTaskProgressReaction chooses for a task list that is not empty
progressEmojiStrict(todos) ==
  IF countOf(todos, "completed") = Len(todos) THEN WhiteCheckMark
  ELSE IF countOf(todos, "completed") = 0 /\ countOf(todos, "in_progress") > 0 THEN Arrows
  ELSE Clipboard
progressEmoji(todos) ==
  IF countOf(todos, "completed") = Len(todos) THEN WhiteCheckMark
  ELSE IF countOf(todos, "in_progress") > 0 THEN Arrows
  ELSE Clipboard

\* updateTaskProgressReaction(sessionKey, newTodos) up to the first await of
\* updateMessageReaction; an empty list returns at once
TaskProgressReaction(t) ==
  /\ turnPc[t] = "running"
  /\ at[t] = "rendered"
  /\ reacting[t].pc = "idle"
  /\ IF Len(newTodos[t]) = 0
     THEN continues(t) /\ UNCHANGED <<reacting, sinkLog>>
     ELSE updateMessageReactionStarts(t, progressEmoji(newTodos[t]))
  /\ UNCHANGED <<ReactionFrame, currentReactions, reactions, sessionMaps>>

(* ---------------- MessageManager (message-manager.ts) ---------------- *)
\* A map entry that is absent and one that reads as falsy are not told apart:
\* 0 for a message, << >> for the accumulated array (the code never stores an
\* empty one), FALSE for the two flags. lastUpdated is not modelled.

recentCount == 3
Newline == "\n"

\* the summary of the n-th call: summaries differ, so that their order shows
Summary(n) == ToString(n)

\* Array.join(sep)
join(a, sep) ==
  [i \in 1..(IF Len(a) = 0 THEN 0 ELSE 2 * Len(a) - 1) |->
     IF i % 2 = 1 THEN a[(i + 1) \div 2] ELSE sep]

Section(text) == [type |-> "section", text |-> text, count |-> 0, value |-> "none"]
Button(text, count, sessionKey) ==
  [type |-> "actions", text |-> text, count |-> count, value |-> sessionKey]

\* accumulated.length <= recentCount
showsAllStrict(accumulated) == Len(accumulated) < recentCount
showsAll(accumulated) == Len(accumulated) <= recentCount

\* accumulated.slice(-recentCount)
recentFirst(accumulated) == SubSeq(accumulated, 1, recentCount)
recentOf(accumulated) ==
  IF Len(accumulated) <= recentCount THEN accumulated
  ELSE SubSeq(accumulated, Len(accumulated) - recentCount + 1, Len(accumulated))

\* buildToolOutputBlocks, reading the expansion state from `expanded`
buildToolOutputBlocks(expanded, sessionKey, accumulated) ==
  LET isExpanded == expanded[sessionKey]
  IN IF showsAll(accumulated)
     THEN << Section(join(accumulated, Newline)) >>
     ELSE LET recent == recentOf(accumulated)
              older == sliceEnd(accumulated, recentCount)
          IN (IF isExpanded
              THEN << Section(join(older, Newline)),
                      Button("Hide Older Calls", 0, sessionKey) >>
              ELSE << Button("Show More Tool Calls", Len(older), sessionKey) >>)
             \o << Section(join(recent, Newline)) >>

hasButton(blocks) == \E i \in 1..Len(blocks) : blocks[i].type = "actions"

chatUpdatePosts(ts, kind, blocks) == [op |-> "post", ts |-> 0, kind |-> kind, blocks |-> blocks]
chatUpdate(ts, kind, blocks) == [op |-> "update", ts |-> ts, kind |-> kind, blocks |-> blocks]
chatPostMessage(kind, blocks) == [op |-> "post", ts |-> 0, kind |-> kind, blocks |-> blocks]

\* the state a method of one kind leaves alone
StreamAndGate == <<allowedTools, turnVars, requestVars, gateVars, timer, clickVars, streamVars,
                   teardownVars>>

\* a render call starts: no other call on the session is suspended
begins(s) ==
  /\ inFlight[s] = NoCall
  /\ nextCall < MaxCalls
  /\ nextCall' = nextCall + 1

suspend(s, method, branch, ts, button) ==
  inFlight' = [inFlight EXCEPT ![s] =
     [method |-> method, branch |-> branch, ts |-> ts, button |-> button]]

returns(s) == inFlight' = [inFlight EXCEPT ![s] = NoCall]

\* the awaited Slack call of the suspended method settles
settles(s, outcome) ==
  lastReturn' = [lastReturn EXCEPT ![s] =
     [method |-> inFlight[s].method, branch |-> inFlight[s].branch, outcome |-> outcome]]

\* chat.postMessage resolved with a ts: the message exists
created(kind) == posted' = Append(posted, kind)
newTs == Len(posted) + 1

\* existing && this.textMessageAfterTool.get(sessionKey)
shouldBumpAlways(s) == toolOutputMessages[s] # 0
shouldBump(s) == toolOutputMessages[s] # 0 /\ textMessageAfterTool[s]

\* accumulated.push(toolContent)
pushFront(accumulated, toolContent) == <<toolContent>> \o accumulated
push(accumulated, toolContent) == Append(accumulated, toolContent)

\* the array a bump resets the window to
bumpResetKept(accumulated, toolContent) == accumulated
bumpReset(accumulated, toolContent) == <<toolContent>>

\* updateToolOutput up to its await: accumulate, reset on a bump, build the
\* blocks, issue the update of the existing message or the post of a new one
UpdateToolOutput(s, toolContent) ==
  /\ begins(s)
  /\ LET accumulated == push(accumulatedToolOutput[s], toolContent)
         existing == toolOutputMessages[s]
         bump == shouldBump(s)
         currentAccumulated == IF bump THEN bumpReset(accumulated, toolContent)
                               ELSE accumulated
         expanded == IF bump THEN [toolOutputExpanded EXCEPT ![s] = FALSE]
                     ELSE toolOutputExpanded
         blocks == buildToolOutputBlocks(expanded, s, currentAccumulated)
     IN /\ accumulatedToolOutput' = [accumulatedToolOutput EXCEPT ![s] = currentAccumulated]
        /\ toolOutputExpanded' = expanded
        /\ toolOutputMessages' = IF bump THEN [toolOutputMessages EXCEPT ![s] = 0]
                                 ELSE toolOutputMessages
        /\ IF existing # 0 /\ ~bump
           THEN /\ lastCall' = chatUpdate(existing, "tool_output", blocks)
                /\ suspend(s, "updateToolOutput", "update", existing, hasButton(blocks))
           ELSE /\ lastCall' = chatPostMessage("tool_output", blocks)
                /\ suspend(s, "updateToolOutput", "create", 0, hasButton(blocks))
  /\ UNCHANGED <<StreamAndGate, taskListMessages, statusMessages, textMessageAfterTool,
                 posted, deletedTs, controls, lastReturn>>

\* updateToolOutput after its await. An update that threw is logged; a post
\* that threw leaves the method by the exception, before the flag is reset.
\* A toggle button can be clicked once Slack shows the blocks that carry it.
ToolOutputReturns(s, outcome) ==
  /\ inFlight[s].method = "updateToolOutput"
  /\ returns(s)
  /\ settles(s, outcome)
  /\ controls' = IF outcome = "ok" /\ inFlight[s].button THEN controls \cup {s} ELSE controls
  /\ IF inFlight[s].branch = "update"
     THEN /\ outcome \in {"ok", "throws"}
          /\ textMessageAfterTool' = [textMessageAfterTool EXCEPT ![s] = FALSE]
          /\ UNCHANGED <<toolOutputMessages, posted>>
     ELSE CASE outcome = "ok" ->
                 /\ created("tool_output")
                 /\ toolOutputMessages' = [toolOutputMessages EXCEPT ![s] = newTs]
                 /\ textMessageAfterTool' = [textMessageAfterTool EXCEPT ![s] = FALSE]
            [] outcome = "no_ts" ->
                 /\ textMessageAfterTool' = [textMessageAfterTool EXCEPT ![s] = FALSE]
                 /\ UNCHANGED <<toolOutputMessages, posted>>
            [] outcome = "throws" ->
                 UNCHANGED <<toolOutputMessages, posted, textMessageAfterTool>>
  /\ UNCHANGED <<StreamAndGate, taskListMessages, statusMessages, accumulatedToolOutput,
                 toolOutputExpanded, deletedTs, lastCall, nextCall>>

\* toggleToolHistory
toggleToolHistory(s) == [toolOutputExpanded EXCEPT ![s] = ~@]

\* a click on a toggle button carrying the session key: toggleToolHistory,
\* then rerenderToolOutput up to its await (its result is only logged)
ToggleClick(s) ==
  /\ s \in controls
  /\ toolOutputExpanded' = toggleToolHistory(s)
  /\ LET message == toolOutputMessages[s]
         accumulated == accumulatedToolOutput[s]
     IN IF message = 0 \/ accumulated = << >>
        THEN lastCall' = lastCall
        ELSE lastCall' = chatUpdate(message, "tool_output",
                           buildToolOutputBlocks(toolOutputExpanded', s, accumulated))
  /\ UNCHANGED <<StreamAndGate, slotVars, accumulatedToolOutput, textMessageAfterTool,
                 posted, deletedTs, controls, inFlight, nextCall, lastReturn>>

\* postTextMessage and postRichMessage up to the await of the post
PostTextMessage(s, method) ==
  /\ begins(s)
  /\ lastCall' = chatPostMessage("text", << >>)
  /\ suspend(s, method, "create", 0, FALSE)
  /\ UNCHANGED <<StreamAndGate, slotVars, accumulatedToolOutput, textMessageAfterTool,
                 toolOutputExpanded, posted, deletedTs, controls, lastReturn>>

\* this.textMessageAfterTool.set(sessionKey, true)
markTextAfterToolDropped(s) == textMessageAfterTool
markTextAfterTool(s) == [textMessageAfterTool EXCEPT ![s] = TRUE]

\* after the await: the flag is set unless the post threw
TextReturns(s, outcome) ==
  /\ inFlight[s].method \in {"postTextMessage", "postRichMessage"}
  /\ outcome \in {"ok", "throws"}
  /\ returns(s)
  /\ settles(s, outcome)
  /\ IF outcome = "ok"
     THEN /\ created("text")
          /\ textMessageAfterTool' = markTextAfterTool(s)
     ELSE UNCHANGED <<posted, textMessageAfterTool>>
  /\ UNCHANGED <<StreamAndGate, slotVars, accumulatedToolOutput, toolOutputExpanded,
                 deletedTs, lastCall, controls, nextCall>>

\* updateStatus up to its await
UpdateStatus(s) ==
  /\ begins(s)
  /\ LET existing == statusMessages[s]
     IN IF existing # 0
        THEN /\ lastCall' = chatUpdate(existing, "status", << >>)
             /\ suspend(s, "updateStatus", "update", existing, FALSE)
        ELSE /\ lastCall' = chatPostMessage("status", << >>)
             /\ suspend(s, "updateStatus", "create", 0, FALSE)
  /\ UNCHANGED <<StreamAndGate, slotVars, accumulatedToolOutput, textMessageAfterTool,
                 toolOutputExpanded, posted, deletedTs, controls, lastReturn>>

\* updateStatus after its await: a failed update is logged, a post with a ts
\* registers the message
StatusReturns(s, outcome) ==
  /\ inFlight[s].method = "updateStatus"
  /\ inFlight[s].branch = "update" => outcome \in {"ok", "throws"}
  /\ returns(s)
  /\ settles(s, outcome)
  /\ IF inFlight[s].branch = "create" /\ outcome = "ok"
     THEN /\ created("status")
          /\ statusMessages' = [statusMessages EXCEPT ![s] = newTs]
     ELSE UNCHANGED <<statusMessages, posted>>
  /\ UNCHANGED <<StreamAndGate, taskListMessages, toolOutputMessages,
                 accumulatedToolOutput, textMessageAfterTool, toolOutputExpanded,
                 deletedTs, lastCall, controls, nextCall>>

\* this.taskListMessages.set(sessionKey, { ts: result.ts, ... })
taskListSetDropped(s, ts) == taskListMessages
taskListSet(s, ts) == [taskListMessages EXCEPT ![s] = ts]

\* updateTaskList up to its first await
UpdateTaskList(s) ==
  /\ begins(s)
  /\ LET existing == taskListMessages[s]
     IN IF existing # 0
        THEN /\ lastCall' = chatUpdate(existing, "task_list", << >>)
             /\ suspend(s, "updateTaskList", "update", existing, FALSE)
        ELSE /\ lastCall' = chatPostMessage("task_list", << >>)
             /\ suspend(s, "updateTaskList", "create", 0, FALSE)
  /\ UNCHANGED <<StreamAndGate, slotVars, accumulatedToolOutput, textMessageAfterTool,
                 toolOutputExpanded, posted, deletedTs, controls, lastReturn>>

\* updateTaskList after an await: a failed update is followed by the post of a
\* new message, which is awaited in turn
TaskListReturns(s, outcome) ==
  /\ inFlight[s].method = "updateTaskList"
  /\ settles(s, outcome)
  /\ IF inFlight[s].branch = "update"
     THEN IF outcome = "throws"
          THEN /\ lastCall' = chatPostMessage("task_list", << >>)
               /\ suspend(s, "updateTaskList", "create", 0, FALSE)
               /\ UNCHANGED <<taskListMessages, posted>>
          ELSE /\ outcome = "ok"
               /\ returns(s)
               /\ UNCHANGED <<taskListMessages, posted, lastCall>>
     ELSE /\ returns(s)
          /\ lastCall' = lastCall
          /\ IF outcome = "ok"
             THEN /\ created("task_list")
                  /\ taskListMessages' = taskListSet(s, newTs)
             ELSE UNCHANGED <<taskListMessages, posted>>
  /\ UNCHANGED <<StreamAndGate, toolOutputMessages, statusMessages,
                 accumulatedToolOutput, textMessageAfterTool, toolOutputExpanded,
                 deletedTs, controls, nextCall>>

\* this.accumulatedToolOutput.delete(sessionKey)
accumulatedClear(s) == [k \in Sessions |-> << >>]
accumulatedDelete(s) == [accumulatedToolOutput EXCEPT ![s] = << >>]

\* cleanup(sessionKey)
Cleanup(s) ==
  /\ taskListMessages' = [taskListMessages EXCEPT ![s] = 0]
  /\ toolOutputMessages' = [toolOutputMessages EXCEPT ![s] = 0]
  /\ statusMessages' = [statusMessages EXCEPT ![s] = 0]
  /\ accumulatedToolOutput' = accumulatedDelete(s)
  /\ textMessageAfterTool' = [textMessageAfterTool EXCEPT ![s] = FALSE]
  /\ toolOutputExpanded' = [toolOutputExpanded EXCEPT ![s] = FALSE]
  /\ UNCHANGED <<StreamAndGate, posted, deletedTs, lastCall, controls, inFlight, nextCall,
                 lastReturn>>

(* ------- MessageManager: the body of the class kept in index.ts ------- *)
\* accumulated.join('\n---\n') in one section
formattedOutput(accumulated) == << Section(join(accumulated, "\n---\n")) >>

chatDelete(ts) == [op |-> "delete", ts |-> ts, kind |-> "tool_output", blocks |-> << >>]

\* updateToolOutput of that body up to its first await: accumulate, then the
\* delete of the old message on a bump, the update in place, or the first post
UpdateToolOutputBumping(s, toolContent) ==
  /\ begins(s)
  /\ LET accumulated == Append(accumulatedToolOutput[s], toolContent)
         existing == toolOutputMessages[s]
     IN /\ accumulatedToolOutput' = [accumulatedToolOutput EXCEPT ![s] = accumulated]
        /\ IF shouldBump(s)
           THEN /\ lastCall' = chatDelete(existing)
                /\ suspend(s, "updateToolOutput", "delete", existing, FALSE)
           ELSE IF existing # 0
           THEN /\ lastCall' = chatUpdate(existing, "tool_output", formattedOutput(accumulated))
                /\ suspend(s, "updateToolOutput", "update", existing, FALSE)
           ELSE /\ lastCall' = chatPostMessage("tool_output", formattedOutput(accumulated))
                /\ suspend(s, "updateToolOutput", "create", 0, FALSE)
  /\ UNCHANGED <<StreamAndGate, slotVars, textMessageAfterTool, toolOutputExpanded,
                 posted, deletedTs, controls, lastReturn>>

\* the try / catch around chat.delete: no outcome of the delete leaves the method
deleteRaisesOnFailure(outcome) == outcome = "throws"
deleteRaises(outcome) == FALSE

\* that updateToolOutput after an await: after the delete the new message is
\* posted; after the update or the post the flag is reset, unless the post threw
ToolOutputBumpingReturns(s, outcome) ==
  /\ inFlight[s].method = "updateToolOutput"
  /\ settles(s, outcome)
  /\ CASE inFlight[s].branch = "delete" ->
            /\ outcome \in {"ok", "throws"}
            /\ deletedTs' = IF outcome = "ok" THEN deletedTs \cup {inFlight[s].ts} ELSE deletedTs
            /\ IF deleteRaises(outcome)
               THEN returns(s) /\ lastCall' = lastCall
               ELSE /\ lastCall' = chatPostMessage("tool_output",
                                      formattedOutput(accumulatedToolOutput[s]))
                    /\ suspend(s, "updateToolOutput", "create", inFlight[s].ts, FALSE)
            /\ UNCHANGED <<toolOutputMessages, posted, textMessageAfterTool>>
       [] inFlight[s].branch = "update" ->
            /\ outcome \in {"ok", "throws"}
            /\ returns(s)
            /\ textMessageAfterTool' = [textMessageAfterTool EXCEPT ![s] = FALSE]
            /\ UNCHANGED <<toolOutputMessages, posted, deletedTs, lastCall>>
       [] inFlight[s].branch = "create" ->
            /\ returns(s)
            /\ toolOutputMessages' = IF outcome = "ok"
                                     THEN [toolOutputMessages EXCEPT ![s] = newTs]
                                     ELSE toolOutputMessages
            /\ posted' = IF outcome = "ok" THEN Append(posted, "tool_output") ELSE posted
            /\ textMessageAfterTool' = IF outcome = "throws" THEN textMessageAfterTool
                                       ELSE [textMessageAfterTool EXCEPT ![s] = FALSE]
            /\ UNCHANGED <<deletedTs, lastCall>>
  /\ UNCHANGED <<StreamAndGate, taskListMessages, statusMessages, accumulatedToolOutput,
                 toolOutputExpanded, controls, nextCall>>

(* ---------------- approval gate ---------------- *)

\* resolve of the promise created for an approval: only the first call settles it
resolve(c, who, value) ==
  /\ response' = [response EXCEPT ![c] = IF @ = Unsettled THEN value ELSE @]
  /\ resolveCalls' = [resolveCalls EXCEPT ![c] = Append(@, who)]

pendingDelete(id) ==
  [k \in DOMAIN pendingApprovals \ {id} |-> pendingApprovals[k]]

pendingSet(id, rec) ==
  [k \in DOMAIN pendingApprovals \cup {id} |->
     IF k = id THEN rec ELSE pendingApprovals[k]]

\* the allowlist check the handler starts with
autoApprovedNever(toolName, input) == FALSE
autoApproved(toolName, input) == isToolAllowedIn(allowedTools, toolName, input)

\* the permission handler is called by the agent stream of a running turn:
\* the allowlist check, then the post of the approval prompt
PermissionHandler(t, call) ==
  /\ turnPc[t] = "running"
  /\ nextRequest < MaxRequests
  /\ LET c == nextRequest + 1
     IN /\ nextRequest' = c
        /\ request' = [request EXCEPT ![c] =
             [toolName |-> call.toolName, input |-> call.input,
              sessionKey |-> turnSession[t]]]
        /\ IF autoApproved(call.toolName, call.input)
           THEN /\ requestPc' = [requestPc EXCEPT ![c] = "returned"]
                /\ response' = [response EXCEPT ![c] = Allow(call.input)]
                /\ prompts' = prompts
           ELSE /\ requestPc' = [requestPc EXCEPT ![c] = "posting"]
                /\ response' = response
                /\ prompts' = prompts \cup {c}
  /\ UNCHANGED <<windowVars, teardownVars, streamVars, allowedTools, turnVars, resolveCalls, promptUpdates, notices,
                 pendingApprovals, timer, clickVars>>

\* setTimeout(..., 55000)
setTimeoutDropped(c) == timer
setTimeout(c) == [timer EXCEPT ![c] = "armed"]

\* chat.postMessage of the prompt returns a ts: the record is registered and
\* the timer started
PromptPosted(c) ==
  /\ requestPc[c] = "posting"
  /\ requestPc' = [requestPc EXCEPT ![c] = "waiting"]
  /\ pendingApprovals' = pendingSet(c, [input |-> request[c].input,
                                        sessionKey |-> request[c].sessionKey])
  /\ timer' = setTimeout(c)
  /\ UNCHANGED <<windowVars, teardownVars, streamVars, allowedTools, turnVars, nextRequest, request, prompts, response,
                 resolveCalls, promptUpdates, notices, clickVars>>

\* chat.postMessage of the prompt returns no ts, or throws
PromptFails(c, how) ==
  /\ requestPc[c] = "posting"
  /\ requestPc' = [requestPc EXCEPT ![c] = "returned"]
  /\ response' = [response EXCEPT ![c] =
       IF how = "no_ts" THEN Deny("Failed to request permission")
       ELSE Deny("Error requesting permission")]
  /\ UNCHANGED <<windowVars, teardownVars, streamVars, allowedTools, turnVars, nextRequest, request, prompts,
                 resolveCalls, promptUpdates, notices, pendingApprovals, timer,
                 clickVars>>

\* the presence check of the timer callback
timerHasAlways(c) == TRUE
timerHas(c) == c \in DOMAIN pendingApprovals

\* the removal the timer callback starts with
timerDeleteDropped(c) == pendingApprovals
timerDelete(c) == pendingDelete(c)

\* the setTimeout callback of an approval
TimerFires(c) ==
  /\ timer[c] = "armed"
  /\ timer' = [timer EXCEPT ![c] = "fired"]
  /\ IF timerHas(c)
     THEN /\ pendingApprovals' = timerDelete(c)
          /\ promptUpdates' = [promptUpdates EXCEPT ![c] = Append(@, "timeout")]
          /\ notices' = [notices EXCEPT ![c] = Append(@, "timeout")]
          /\ resolve(c, "timeout", Deny(MsgTimedOut))
          /\ requestPc' = [requestPc EXCEPT ![c] = "returned"]
     ELSE UNCHANGED <<gateVars, requestPc>>
  /\ UNCHANGED <<windowVars, teardownVars, streamVars, allowedTools, turnVars, nextRequest, request, prompts, clickVars>>

\* the else branch of an action handler: the id is not pending, a warning is logged
noPendingFoundUpdates(approvalId) ==
  IF approvalId \in RequestIds
  THEN [promptUpdates EXCEPT ![approvalId] = Append(@, "denied")]
  ELSE promptUpdates
noPendingFound(approvalId) == promptUpdates

\* a button click is handled up to its first suspension after reading state:
\* ack() (which reads nothing), pendingApprovals.get, and, when the record is
\* present, the prompt's status update, which is issued and awaited
Click(action, approvalId, payloadInput) ==
  /\ nextClick < MaxClicks
  /\ nextClick' = nextClick + 1
  /\ LET h == nextClick + 1
         body == [action_id |-> action, value |-> approvalId, input |-> payloadInput]
     IN /\ lastClick' = body
        /\ IF approvalId \in DOMAIN pendingApprovals
           THEN /\ click' = [click EXCEPT ![h] = body]
                /\ clickPending' = [clickPending EXCEPT ![h] = pendingApprovals[approvalId]]
                /\ promptUpdates' = [promptUpdates EXCEPT ![approvalId] =
                     Append(@, IF action = "approve_tool" THEN "approved" ELSE "denied")]
                /\ clickPc' = [clickPc EXCEPT ![h] = "update"]
           ELSE /\ clickPc' = [clickPc EXCEPT ![h] = "done"]
                /\ promptUpdates' = noPendingFound(approvalId)
                /\ UNCHANGED <<click, clickPending>>
  /\ UNCHANGED <<windowVars, teardownVars, streamVars, allowedTools, turnVars, requestVars, response, resolveCalls,
                 notices, pendingApprovals, timer>>

\* the input approve_tool resolves with
approveInputFromPayload(h) == click[h].input
approveInput(h) == clickPending[h].input

\* approve_tool after the awaited update: resolve with the stored input, delete
ApproveResolves(h) ==
  /\ clickPc[h] = "update"
  /\ click[h].action_id = "approve_tool"
  /\ LET approvalId == click[h].value
     IN /\ resolve(approvalId, "approve", Allow(approveInput(h)))
        /\ pendingApprovals' = pendingDelete(approvalId)
        /\ requestPc' = [requestPc EXCEPT ![approvalId] = "returned"]
  /\ clickPc' = [clickPc EXCEPT ![h] = "done"]
  /\ click' = [click EXCEPT ![h] = NoClick]
  /\ clickPending' = [clickPending EXCEPT ![h] = NoPending]
  /\ UNCHANGED <<windowVars, teardownVars, streamVars, allowedTools, turnVars, nextRequest, request, prompts,
                 promptUpdates, notices, timer, nextClick, lastClick>>

\* deny_tool after the awaited update: resolve, delete, post the notice
DenyResolves(h) ==
  /\ clickPc[h] = "update"
  /\ click[h].action_id = "deny_tool"
  /\ LET approvalId == click[h].value
     IN /\ resolve(approvalId, "deny", Deny(MsgUserDenied))
        /\ pendingApprovals' = pendingDelete(approvalId)
        /\ notices' = [notices EXCEPT ![approvalId] = Append(@, "cancelled")]
        /\ requestPc' = [requestPc EXCEPT ![approvalId] = "returned"]
  /\ clickPc' = [clickPc EXCEPT ![h] = "done"]
  /\ click' = [click EXCEPT ![h] = NoClick]
  /\ clickPending' = [clickPending EXCEPT ![h] = NoPending]
  /\ UNCHANGED <<windowVars, teardownVars, streamVars, allowedTools, turnVars, nextRequest, request, prompts,
                 promptUpdates, timer, nextClick, lastClick>>

(* ---------------- specification ---------------- *)

TurnNext ==
  \/ \E s \in Sessions : HandleMessage(s)
  \/ \E t \in TurnIds : StreamEnds(t)
  \/ \E t \in TurnIds, name \in {"AbortError", "Error"} : StreamThrows(t, name)
  \/ \E t \in TurnIds : Finally(t)

GateNext ==
  \/ \E t \in TurnIds, command \in {GitStatus, RmRf} :
       PermissionHandler(t, [toolName |-> Bash, input |-> [command |-> command]])
  \/ \E c \in RequestIds : PromptPosted(c)
  \/ \E c \in RequestIds, how \in {"no_ts", "throws"} : PromptFails(c, how)
  \/ \E c \in RequestIds : TimerFires(c)
  \/ \E action \in {"approve_tool", "deny_tool"}, approvalId \in {0} \cup prompts,
        payloadInput \in {[command |-> Ls]} : Click(action, approvalId, payloadInput)
  \/ \E h \in ClickIds : ApproveResolves(h)
  \/ \E h \in ClickIds : DenyResolves(h)

\* the coordinator alone
TurnSpec == Init /\ [][TurnNext]_vars

\* the approval gate during one running turn: the state after the first
\* message of session "s1" was taken up
GateState ==
  /\ nextTurn = 1
  /\ turnSession = [t \in TurnIds |-> IF t = 1 THEN "s1" ELSE "none"]
  /\ turnPc = [t \in TurnIds |-> IF t = 1 THEN "running" ELSE "none"]
  /\ turnEnd = [t \in TurnIds |-> "none"]
  /\ aborted = [t \in TurnIds |-> FALSE]
  /\ activeControllers = [s \in Sessions |-> IF s = "s1" THEN 1 ELSE 0]
  /\ lastEvent = [s \in Sessions |-> IF s = "s1" THEN "begin" ELSE "none"]
  /\ nextRequest = 0
  /\ request = [c \in RequestIds |-> NoRequest]
  /\ requestPc = [c \in RequestIds |-> "none"]
  /\ response = [c \in RequestIds |-> Unsettled]
  /\ resolveCalls = [c \in RequestIds |-> << >>]
  /\ prompts = {}
  /\ promptUpdates = [c \in RequestIds |-> << >>]
  /\ notices = [c \in RequestIds |-> << >>]
  /\ pendingApprovals = << >>
  /\ timer = [c \in RequestIds |-> "none"]
  /\ nextClick = 0
  /\ lastClick = NoClick
  /\ click = [h \in ClickIds |-> NoClick]
  /\ clickPc = [h \in ClickIds |-> "none"]
  /\ clickPending = [h \in ClickIds |-> NoPending]
  /\ at = [t \in TurnIds |-> "start"]
  /\ terminal = [t \in TurnIds |-> NoTerminal]
  /\ incoming = [s \in Sessions |-> "none"]
  /\ taskListMessages = [s \in Sessions |-> 0]
  /\ toolOutputMessages = [s \in Sessions |-> 0]
  /\ statusMessages = [s \in Sessions |-> 0]
  /\ accumulatedToolOutput = [s \in Sessions |-> << >>]
  /\ textMessageAfterTool = [s \in Sessions |-> FALSE]
  /\ toolOutputExpanded = [s \in Sessions |-> FALSE]
  /\ posted = << >>
  /\ deletedTs = {}
  /\ lastCall = NoSlackCall
  /\ controls = {}
  /\ inFlight = [s \in Sessions |-> NoCall]
  /\ nextCall = 0
  /\ lastReturn = [s \in Sessions |-> NoReturn]
  /\ now = 0
  /\ sessionId = [s \in Sessions |-> FALSE]
  /\ sessionMaps = [s \in Sessions |-> IF s = "s1" THEN {"originalMessages"} ELSE {}]
  /\ cleanupTimer = [t \in TurnIds |-> NoTimer]
  /\ currentReactions = [s \in Sessions |-> ""]
  /\ reactions = [s \in Sessions |-> {}]
  /\ reacting = [t \in TurnIds |-> NoReaction]
  /\ sinkLog = << >>
  /\ newTodos = [t \in TurnIds |-> << >>]
  /\ sessions = [s \in Sessions |-> s = "s1"]
  /\ lastActivity = [s \in Sessions |-> 0]
  /\ lastMessage = [s \in Sessions |-> 0]

GateInit == allowedTools \in parseAllowedTools /\ GateState

GateSpec == GateInit /\ [][GateNext]_vars

\* isToolAllowed under the permission handler: the allowlist is any list of
\* up to MaxPatterns of the patterns below, as ALLOWED_TOOLS can set it, and
\* the agent asks for one of the tool invocations below
Git == <<"g", "i", "t">>
AllowCalls ==
  { [toolName |-> Bash, input |-> [command |-> Git]],
    [toolName |-> Bash, input |-> [command |-> GitStatus]],
    [toolName |-> Bash, input |-> [command |-> Git \o <<"s">>]],
    [toolName |-> Bash, input |-> [command |-> Ls]],
    [toolName |-> Bash, input |-> [command |-> Ls \o <<" ", "l">>]],
    [toolName |-> Bash, input |-> [command |-> Undefined]],
    [toolName |-> Read, input |-> [command |-> Undefined]],
    [toolName |-> <<"E", "d", "i", "t">>, input |-> [command |-> Undefined]],
    [toolName |-> McpPrefix \o <<"x">>, input |-> [command |-> Undefined]] }

AllowInit ==
  /\ allowedTools \in
       UNION {[1..n -> {Read, Bash, McpStar, BashPrefix \o Git \o SpaceStar, BashPrefix \o Ls}] :
                n \in 0..MaxPatterns}
  /\ GateState

AllowNext == \E t \in TurnIds, call \in AllowCalls : PermissionHandler(t, call)

AllowSpec == AllowInit /\ [][AllowNext]_vars

\* timers that were started do fire
Fairness == \A c \in RequestIds : WF_vars(TimerFires(c))

\* the gate while the session goes on: the running turn ends or fails, and
\* up to MaxNewMessages further messages arrive and start turns of their own
SessionNext ==
  \/ \E s \in Sessions : nextTurn < 1 + MaxNewMessages /\ HandleMessage(s)
  \/ \E t \in TurnIds : StreamEnds(t)
  \/ \E t \in TurnIds, name \in {"AbortError", "Error"} : StreamThrows(t, name)
  \/ \E t \in TurnIds : Finally(t)

FairNext == GateNext \/ SessionNext

FairSpec == GateInit /\ [][FairNext]_vars /\ Fairness

\* one session in detail: its messages, with or without files, and the try
\* block of each turn step by step
StreamNext ==
  \/ FileNotice("s1")
  \/ HandleMessage("s1")
  \/ \E t \in TurnIds : PostThinking(t)
  \/ \E t \in TurnIds : ThinkingReaction(t)
  \/ \E t \in TurnIds : ShowWorking(t)
  \/ \E t \in TurnIds : WorkingReaction(t)
  \/ \E t \in TurnIds : TodoUpdate(t)
  \/ \E t \in TurnIds : ToolOutput(t)
  \/ \E t \in TurnIds : PostText(t)
  \/ \E t \in TurnIds : NextMessage(t)
  \/ \E t \in TurnIds : LoopBreaks(t)
  \/ \E t \in TurnIds : StreamExhausted(t)
  \/ \E t \in TurnIds, name \in {"AbortError", "Error"} : StreamRaises(t, name)
  \/ \E t \in TurnIds : Finally(t)

StreamSpec == Init /\ [][StreamNext]_vars

\* one session over time: its turns step by step, the agent's init message,
\* the minutes passing and the timeouts of the finally blocks
TeardownNext ==
  \/ nextTurn < MaxTeardownTurns /\ HandleMessage("s1")
  \/ \E t \in TurnIds : PostThinking(t)
  \/ \E t \in TurnIds : ThinkingReaction(t)
  \/ \E t \in TurnIds : SessionInit(t)
  \/ \E t \in TurnIds : ShowWorking(t)
  \/ \E t \in TurnIds : WorkingReaction(t)
  \/ \E t \in TurnIds : TodoUpdate(t)
  \/ \E t \in TurnIds : ToolOutput(t)
  \/ \E t \in TurnIds : PostText(t)
  \/ \E t \in TurnIds : NextMessage(t)
  \/ \E t \in TurnIds : LoopBreaks(t)
  \/ \E t \in TurnIds : StreamExhausted(t)
  \/ \E t \in TurnIds, name \in {"AbortError", "Error"} : StreamRaises(t, name)
  \/ \E t \in TurnIds : Finally(t)
  \/ Tick
  \/ \E t \in TurnIds : TeardownFires(t)

\* the MessageManager under the calls of its callers: on one session the
\* render methods are awaited one after the other; clicks on toggle buttons
\* and the teardown come at any time
Outcomes == {"ok", "no_ts", "throws"}

WindowSessions == {"s1"}

WindowNext ==
  \/ \E s \in WindowSessions : UpdateToolOutput(s, Summary(nextCall + 1))
  \/ \E s \in WindowSessions, outcome \in Outcomes : ToolOutputReturns(s, outcome)
  \/ \E s \in WindowSessions : ToggleClick(s)
  \/ \E s \in WindowSessions, method \in {"postTextMessage", "postRichMessage"} :
        PostTextMessage(s, method)
  \/ \E s \in WindowSessions, outcome \in Outcomes : TextReturns(s, outcome)
  \/ \E s \in WindowSessions : UpdateStatus(s)
  \/ \E s \in WindowSessions, outcome \in Outcomes : StatusReturns(s, outcome)
  \/ \E s \in WindowSessions : UpdateTaskList(s)
  \/ \E s \in WindowSessions, outcome \in Outcomes : TaskListReturns(s, outcome)
  \/ \E s \in WindowSessions : Cleanup(s)

WindowInit == Init /\ allowedTools = DefaultAllowedTools

WindowSpec == WindowInit /\ [][WindowNext]_vars

\* the body of the class kept in index.ts under the calls of one turn after
\* the other: tool outputs and texts, awaited one after the other, and the
\* teardown between two calls
BumpNext ==
  \/ \E s \in WindowSessions : UpdateToolOutputBumping(s, Summary(nextCall + 1))
  \/ \E s \in WindowSessions, outcome \in Outcomes : ToolOutputBumpingReturns(s, outcome)
  \/ \E s \in WindowSessions : PostTextMessage(s, "postTextMessage")
  \/ \E s \in WindowSessions, outcome \in Outcomes : TextReturns(s, outcome)
  \/ \E s \in WindowSessions : inFlight[s] = NoCall /\ Cleanup(s)

BumpSpec == WindowInit /\ [][BumpNext]_vars

TeardownSpec == WindowInit /\ [][TeardownNext]_vars

\* one session over time with its reactions call by call: the turns from the
\* thinking status to their terminal path, every updateMessageReaction with
\* the outcomes of reactions.remove and reactions.add, and the timeouts of the
\* finally blocks; the minutes are counted while a timeout is pending
ReactionNext ==
  \/ nextTurn < MaxReactionTurns /\ HandleMessage("s1")
  \/ \E t \in TurnIds : PostThinking(t)
  \/ \E t \in TurnIds : Len(sinkLog) + 2 <= MaxSinkCalls /\ SiteReaction(t)
  \/ \E t \in TurnIds, outcome \in {"ok", "no_reaction", "error"} : RemoveSettles(t, outcome)
  \/ \E t \in TurnIds, outcome \in {"ok", "already_reacted", "error"} : AddSettles(t, outcome)
  \/ \E t \in TurnIds : SessionInit(t)
  \/ \E t \in TurnIds, cause \in TerminalSites : TerminalPath(t, cause)
  \/ \E t \in TurnIds : Finally(t)
  \/ (\E t \in TurnIds : cleanupTimer[t].pc = "armed") /\ Tick
  \/ \E t \in TurnIds : TeardownFires(t)

ReactionSpec == WindowInit /\ [][ReactionNext]_vars

\* the sessions of ClaudeHandler over time: messages start turns, turns end,
\* and every five minutes the inactive sessions are cleaned up
InactiveNext ==
  \/ \E s \in Sessions : nextTurn < MaxSessionTurns /\ HandleMessage(s)
  \/ \E t \in TurnIds : StreamEnds(t)
  \/ \E t \in TurnIds : Finally(t)
  \/ CleanupInactiveSessions

SessionSpec == WindowInit /\ [][InactiveNext]_vars

\* the turns of one session message by message, with the task lists of their
\* TodoWrite calls and the reactions call by call
ProgressNext ==
  \/ nextTurn < MaxProgressTurns /\ HandleMessage("s1")
  \/ \E t \in TurnIds : PostThinking(t)
  \/ \E t \in TurnIds : Len(sinkLog) + 2 <= MaxSinkCalls /\ SiteReaction(t)
  \/ \E t \in TurnIds, outcome \in {"ok", "no_reaction", "error"} : RemoveSettles(t, outcome)
  \/ \E t \in TurnIds, outcome \in {"ok", "already_reacted", "error"} : AddSettles(t, outcome)
  \/ \E t \in TurnIds : SessionInit(t)
  \/ \E t \in TurnIds : ShowWorking(t)
  \/ \E t \in TurnIds, todos \in TodoLists, significant \in BOOLEAN :
        HandleTodoUpdate(t, todos, significant)
  \/ \E t \in TurnIds : Len(sinkLog) + 2 <= MaxSinkCalls /\ TaskProgressReaction(t)
  \/ \E t \in TurnIds : ToolOutput(t)
  \/ \E t \in TurnIds : NextMessage(t)
  \/ \E t \in TurnIds, cause \in TerminalSites : TerminalPath(t, cause)
  \/ \E t \in TurnIds : Finally(t)

ProgressSpec == WindowInit /\ [][ProgressNext]_vars

\* the render methods of two sessions side by side, each session's calls
\* awaited one after the other, with clicks and teardowns at any time
PairNext ==
  \/ \E s \in Sessions : nextCall < MaxPairCalls /\ UpdateToolOutput(s, Summary(1))
  \/ \E s \in Sessions, outcome \in {"ok", "throws"} : ToolOutputReturns(s, outcome)
  \/ \E s \in Sessions : ToggleClick(s)
  \/ \E s \in Sessions : nextCall < MaxPairCalls /\ PostTextMessage(s, "postTextMessage")
  \/ \E s \in Sessions, outcome \in {"ok", "throws"} : TextReturns(s, outcome)
  \/ \E s \in Sessions : nextCall < MaxPairCalls /\ UpdateStatus(s)
  \/ \E s \in Sessions, outcome \in {"ok", "throws"} : StatusReturns(s, outcome)
  \/ \E s \in Sessions : nextCall < MaxPairCalls /\ UpdateTaskList(s)
  \/ \E s \in Sessions, outcome \in {"ok", "throws"} : TaskListReturns(s, outcome)
  \/ \E s \in Sessions : Cleanup(s)

PairSpec == WindowInit /\ [][PairNext]_vars

(* ---------------- properties of the approval gate ---------------- *)
Range(q) == {q[i] : i \in 1..Len(q)}
Registered(c) == timer[c] # "none"
OutcomeOf(who, c) ==
  IF who = "approve" THEN Allow(request[c].input)
  ELSE IF who = "deny" THEN Deny(MsgUserDenied)
  ELSE Deny(MsgTimedOut)

\* C1: a registered approval is settled exactly when its record has left the
\* pending set, the value delivered is the one of the first terminator that
\* resolved, and the timer never resolves or posts after another terminator
\* has resolved: a timeout resolution or notice exists only as the first one.
C1_ExactlyOnce ==
  \A c \in RequestIds :
    Registered(c) =>
      /\ (c \in DOMAIN pendingApprovals) = (response[c] = Unsettled)
      /\ (c \in DOMAIN pendingApprovals) = (resolveCalls[c] = << >>)
      /\ resolveCalls[c] # << >> => response[c] = OutcomeOf(resolveCalls[c][1], c)
      /\ \A i \in 2..Len(resolveCalls[c]) : resolveCalls[c][i] # "timeout"
      /\ "timeout" \in Range(notices[c]) =>
           /\ resolveCalls[c][1] = "timeout"
           /\ notices[c][1] = "timeout"
           /\ \A i \in 2..Len(notices[c]) : notices[c][i] # "timeout"

\* the timer has fired after an approve was handled, and did nothing
C1_Witness ==
  \E c \in RequestIds :
    /\ timer[c] = "fired"
    /\ resolveCalls[c] = <<"approve">>
    /\ notices[c] = << >>
    /\ promptUpdates[c] = <<"approved">>
    /\ response[c].behavior = "allow"

\* C2: per approval at most one prompt-status update, one resolve call and one
\* follow-up notice are issued, all of the winning terminator.
C2_LoserIsNoOp ==
  \A c \in RequestIds :
    /\ Len(promptUpdates[c]) <= 1
    /\ Len(resolveCalls[c]) <= 1
    /\ Len(notices[c]) <= 1
    /\ resolveCalls[c] = <<"approve">> => promptUpdates[c] = <<"approved">> /\ notices[c] = << >>
    /\ resolveCalls[c] = <<"deny">> => promptUpdates[c] = <<"denied">> /\ notices[c] \in {<< >>, <<"cancelled">>}
    /\ resolveCalls[c] = <<"timeout">> => promptUpdates[c] = <<"timeout">> /\ notices[c] = <<"timeout">>

\* C3: when the timer ends an approval no click has touched, the outcome is the
\* timeout denial, the record is gone, one status update and one paused notice
\* were issued, and this stays so whatever clicks arrive later.
TimedOutUntouched(c) == promptUpdates[c] # << >> /\ promptUpdates[c][1] = "timeout"
C3_TimeoutOnce ==
  \A c \in RequestIds :
    TimedOutUntouched(c) =>
      /\ response[c] = Deny(MsgTimedOut)
      /\ c \notin DOMAIN pendingApprovals
      /\ resolveCalls[c] = <<"timeout">>
      /\ promptUpdates[c] = <<"timeout">>
      /\ notices[c] = <<"timeout">>

\* an approval of `rm -rf` timed out and two clicks, the last one a deny, were
\* received and handled afterwards
C3_Witness ==
  \E c \in RequestIds :
    /\ TimedOutUntouched(c)
    /\ request[c].input.command = RmRf
    /\ nextClick = 2 /\ \A h \in 1..2 : clickPc[h] = "done"
    /\ lastClick.value = c /\ lastClick.action_id = "deny_tool"

\* C4: every registered record is eventually removed and its continuation resolved.
C4_NoLeak ==
  \A c \in RequestIds :
    (c \in DOMAIN pendingApprovals) ~>
      (c \notin DOMAIN pendingApprovals /\ response[c] # Unsettled)

\* a record outlived its turn: the turn was cancelled by a new message and ran
\* its finally block, and the timer then ended the approval
C4_Witness ==
  \E c \in RequestIds :
    /\ resolveCalls[c] = <<"timeout">>
    /\ c \notin DOMAIN pendingApprovals
    /\ aborted[1] /\ turnPc[1] = "done"
    /\ nextTurn = 2

\* C5: an invocation the allowlist matches is answered at once with allow and
\* its own input; no prompt is posted, nothing is registered, no timer started.
C5_AllowShortCircuit ==
  \A c \in RequestIds :
    (c <= nextRequest /\ isToolAllowedIn(allowedTools, request[c].toolName, request[c].input)) =>
      /\ requestPc[c] = "returned"
      /\ response[c] = Allow(request[c].input)
      /\ c \notin prompts
      /\ c \notin DOMAIN pendingApprovals
      /\ timer[c] = "none"
      /\ promptUpdates[c] = << >> /\ notices[c] = << >> /\ resolveCalls[c] = << >>

C5_Witness ==
  \E c \in RequestIds :
    /\ request[c].toolName = Bash /\ request[c].input.command = GitStatus
    /\ allowedTools = DefaultAllowedTools
    /\ response[c] = Allow([command |-> GitStatus])

\* C6: an allow outcome always carries the input the invocation was made with,
\* and an approve that resolves first delivers exactly allow with that input.
C6_OriginalInput ==
  \A c \in RequestIds :
    /\ response[c].behavior = "allow" => response[c].updatedInput = request[c].input
    /\ (resolveCalls[c] # << >> /\ resolveCalls[c][1] = "approve") =>
         response[c] = Allow(request[c].input)

\* an approve click whose payload carried another input resolved the approval
C6_Witness ==
  \E c \in RequestIds :
    /\ resolveCalls[c] = <<"approve">>
    /\ lastClick.value = c /\ lastClick.action_id = "approve_tool"
    /\ nextClick = 1 /\ clickPc[1] = "done"
    /\ lastClick.input # request[c].input
    /\ response[c] = Allow(request[c].input)

\* C7: the notices posted for an approval name the cause of its outcome: the
\* cancelled notice goes with the user-denied outcome and the timed-out notice
\* with the timed-out outcome, and no other notice is posted.
C7_CauseAgrees ==
  \A c \in RequestIds :
    /\ "cancelled" \in Range(notices[c]) => response[c] = Deny(MsgUserDenied)
    /\ "timeout" \in Range(notices[c]) => response[c] = Deny(MsgTimedOut)
    /\ response[c] = Deny(MsgUserDenied) => notices[c] = <<"cancelled">>
    /\ response[c] = Deny(MsgTimedOut) => notices[c] = <<"timeout">>

\* C8: a click whose approval id is not in the pending set changes nothing of
\* the gate: no record, response, resolve call, prompt update, notice or timer.
C8_StaleClickNoOp ==
  [][(nextClick' = nextClick + 1 /\ lastClick'.value \notin DOMAIN pendingApprovals) =>
       /\ clickPc'[nextClick'] = "done"
       /\ UNCHANGED <<gateVars, requestVars, timer>>]_vars

\* a click arrived for an approval that an earlier approve had already ended
C8_Witness ==
  \E c \in RequestIds :
    /\ resolveCalls[c] = <<"approve">>
    /\ promptUpdates[c] = <<"approved">>
    /\ nextClick = 2 /\ \A h \in 1..2 : clickPc[h] = "done"
    /\ lastClick.value = c

(* ---------------- properties of the coordinator ---------------- *)
TurnsOf(s) == {t \in 1..nextTurn : turnSession[t] = s}
Max(S) == CHOOSE x \in S : \A y \in S : y <= x
Live(t) == turnPc[t] = "running" /\ ~aborted[t]

\* C9: when a message starts a turn for a session whose previous coordinator
\* event was the start of a turn, the earlier turn's controller is aborted and
\* activeControllers maps the session to the new turn.
C9_SecondBeginCancelsFirst ==
  [][\A s \in Sessions :
       (nextTurn' = nextTurn + 1 /\ turnSession'[nextTurn'] = s /\ lastEvent[s] = "begin") =>
         /\ aborted'[Max(TurnsOf(s))]
         /\ ~aborted'[nextTurn']
         /\ activeControllers'[s] = nextTurn']_vars

C9_Witness ==
  \E s \in Sessions, t1, t2 \in TurnIds :
    /\ t1 < t2 /\ turnSession[t1] = s /\ turnSession[t2] = s
    /\ lastEvent[s] = "begin"
    /\ turnPc[t1] = "running" /\ aborted[t1]
    /\ turnPc[t2] = "running" /\ ~aborted[t2]
    /\ activeControllers[s] = t2

\* C10: at most one turn of a session is running with an un-aborted controller.
C10_OneLiveTurn ==
  \A s \in Sessions : Cardinality({t \in TurnsOf(s) : Live(t)}) <= 1

(* ---------------- properties of the turn's stream loop ---------------- *)
ContentRenders == {"working", "todo", "tool", "text"}

\* C11: once a turn's controller is aborted, the turn takes up no further
\* stream message and issues no further content render (text message, tool
\* output, task list, 'Working' status), wherever it was suspended.
C11_NoRenderOnceCancelled ==
  [][\A t \in TurnIds :
       aborted[t] => (at'[t] = at[t] \/ at'[t] \notin ContentRenders)]_vars

\* C12: a turn that left the loop because its signal was aborted, by the
\* loop's check or by an AbortError, rendered the cancelled status and
\* indicator.
C12_CancelledRendersCancelled ==
  \A t \in TurnIds :
    at[t] \in {"break", "AbortError"} =>
      /\ turnEnd[t] = "cancelled"
      /\ terminal[t] = [indicator |-> "stop_button", detail |-> FALSE]

\* C13: whenever a message of a session has issued a render (its file notice,
\* or a render of the turn it started), every earlier turn of the session
\* that has not finished is aborted.
C13_CancelBeforeRender ==
  \A s \in Sessions :
    /\ incoming[s] = "notice" =>
         \A t \in TurnsOf(s) : turnPc[t] \in {"running", "exiting"} => aborted[t]
    /\ \A t2 \in TurnsOf(s) :
         (turnPc[t2] # "none" /\ at[t2] # "start") =>
           \A t \in TurnsOf(s) :
             (t < t2 /\ turnPc[t] \in {"running", "exiting"}) => aborted[t]

toolStart(s) == inFlight[s] = NoCall /\ inFlight'[s].method = "updateToolOutput"
toolReturn(s) == inFlight[s].method = "updateToolOutput" /\ inFlight'[s] = NoCall
statusStep(s) ==
  \/ inFlight[s] = NoCall /\ inFlight'[s].method = "updateStatus"
  \/ inFlight[s].method = "updateStatus" /\ inFlight'[s] = NoCall
bumpStart(s) == toolStart(s) /\ toolOutputMessages[s] # 0 /\ textMessageAfterTool[s]
rerenderStep(s) ==
  /\ toolOutputExpanded'[s] # toolOutputExpanded[s]
  /\ inFlight' = inFlight
  /\ toolOutputMessages[s] # 0 /\ toolOutputMessages'[s] # 0
  /\ accumulatedToolOutput[s] # << >> /\ accumulatedToolOutput'[s] # << >>
toolRender(s) == toolStart(s) \/ rerenderStep(s)

\* the summaries a view shows, in order
entriesOf(text) == SelectSeq(text, LAMBDA e : e # Newline)
RECURSIVE viewEntries(_)
viewEntries(blocks) ==
  IF blocks = << >> THEN << >>
  ELSE (IF Head(blocks).type = "section" THEN entriesOf(Head(blocks).text) ELSE << >>)
       \o viewEntries(Tail(blocks))

\* C15: a tool_output render on a session that has a registered tool output
\* message and no text since leaves the registration unchanged and creates no
\* message; a status render on a session that has a registered status message
\* leaves that registration unchanged and creates no message.
C15_OneSlotPerKind ==
  [][\A s \in Sessions :
       /\ ((toolStart(s) \/ toolReturn(s)) /\ toolOutputMessages[s] # 0
              /\ ~textMessageAfterTool[s]) =>
            /\ toolOutputMessages'[s] = toolOutputMessages[s]
            /\ posted' = posted
            /\ toolStart(s) => lastCall' = chatUpdate(toolOutputMessages[s], "tool_output",
                                                      lastCall'.blocks)
       /\ (statusStep(s) /\ statusMessages[s] # 0) =>
            /\ statusMessages'[s] = statusMessages[s]
            /\ posted' = posted]_vars

\* two status renders and two tool output renders have produced two messages,
\* and the second tool output render went to the registered message
C15_Witness ==
  \E s \in Sessions :
    /\ nextCall = 4 /\ inFlight[s] = NoCall
    /\ Len(posted) = 2
    /\ statusMessages[s] # 0 /\ toolOutputMessages[s] # 0
    /\ Len(accumulatedToolOutput[s]) = 2
    /\ lastCall.op = "update" /\ lastCall.ts = toolOutputMessages[s]

\* C16: a tool_output render on a session with a registered tool output
\* message and the text flag set removes the previous message from Slack, and
\* the message it then creates is registered as the session's tool output.
C16_BumpDeletesAndRecreates ==
  [][\A s \in Sessions :
       /\ bumpStart(s) => toolOutputMessages[s] \in deletedTs'
       /\ (toolReturn(s) /\ inFlight[s].branch = "create" /\ posted' # posted) =>
            /\ toolOutputMessages'[s] = Len(posted')
            /\ toolOutputMessages'[s] \notin DOMAIN posted]_vars

\* C17: right after a bump the accumulated sequence is the single summary just
\* appended and the expansion state is collapsed.
C17_BumpResetsWindow ==
  [][\A s \in Sessions :
       bumpStart(s) =>
         /\ accumulatedToolOutput'[s] = <<Summary(nextCall')>>
         /\ Len(accumulatedToolOutput'[s]) = 1
         /\ ~toolOutputExpanded'[s]
         /\ lastCall'.blocks = << Section(<<Summary(nextCall')>>) >>]_vars

\* a window of four summaries was expanded, a text interrupted it and the
\* next tool output started a window of its own
C17_Witness ==
  \E s \in Sessions :
    /\ accumulatedToolOutput[s] = <<"6">>
    /\ ~toolOutputExpanded[s] /\ s \in controls
    /\ inFlight[s].method = "updateToolOutput" /\ inFlight[s].branch = "create"
    /\ toolOutputMessages[s] = 0
    /\ textMessageAfterTool[s]

\* C18: every view rendered of a sequence longer than 3 ends with the last 3
\* summaries in order; the summaries before them are in the view, ahead of
\* the last 3, exactly when the expansion state is true.
C18_RecencyLaw ==
  [][\A s \in Sessions :
       (toolRender(s) /\ Len(accumulatedToolOutput'[s]) > 3) =>
         LET acc == accumulatedToolOutput'[s]
             n == Len(acc)
             view == lastCall'.blocks
             last == view[Len(view)]
         IN /\ last.type = "section"
            /\ entriesOf(last.text) = SubSeq(acc, n - 2, n)
            /\ viewEntries(view) =
                 IF toolOutputExpanded'[s] THEN acc ELSE SubSeq(acc, n - 2, n)]_vars

\* five summaries, expanded: the view shows 1 and 2, then 3, 4 and 5
C18_Witness ==
  \E s \in Sessions :
    /\ accumulatedToolOutput[s] = <<"1", "2", "3", "4", "5">>
    /\ toolOutputExpanded[s]
    /\ lastCall.op = "update" /\ lastCall.kind = "tool_output"
    /\ viewEntries(lastCall.blocks) = <<"1", "2", "3", "4", "5">>
    /\ entriesOf(lastCall.blocks[3].text) = <<"3", "4", "5">>

\* C19: a sequence of at most 3 summaries is rendered as one section and no
\* button; a longer one, collapsed, as a 'Show n - 3 More' button and the last
\* 3; expanded, as the older n - 3 in full, a 'Hide' button and the last 3.
C19_ThresholdAndControl ==
  [][\A s \in Sessions :
       toolRender(s) =>
         LET acc == accumulatedToolOutput'[s]
             n == Len(acc)
             view == lastCall'.blocks
         IN /\ n <= 3 => (Len(view) = 1 /\ view[1].type = "section"
                            /\ entriesOf(view[1].text) = acc)
            /\ (n > 3 /\ ~toolOutputExpanded'[s]) =>
                 /\ Len(view) = 2
                 /\ view[1] = Button("Show More Tool Calls", n - 3, s)
            /\ (n > 3 /\ toolOutputExpanded'[s]) =>
                 /\ Len(view) = 3
                 /\ view[1].type = "section"
                 /\ entriesOf(view[1].text) = SubSeq(acc, 1, n - 3)
                 /\ view[2] = Button("Hide Older Calls", 0, s)]_vars

\* four summaries, toggled once: the older one in full and the hide button
C19_Witness ==
  \E s \in Sessions :
    /\ accumulatedToolOutput[s] = <<"1", "2", "3", "4">>
    /\ toolOutputExpanded[s]
    /\ nextCall = 4
    /\ lastCall.blocks = << Section(<<"1">>), Button("Hide Older Calls", 0, s),
                             Section(join(<<"2", "3", "4">>, Newline)) >>

\* C20: the expansion state is collapsed when a tool output message is
\* registered for a new window; a tool_output render that does not bump keeps
\* it; a bump resets it; and it changes by nothing but toggleToolHistory, the
\* reset of a bump and the teardown.
C20_ExpansionState ==
  [][\A s \in Sessions :
       /\ (toolOutputMessages[s] = 0 /\ toolOutputMessages'[s] # 0) => ~toolOutputExpanded'[s]
       /\ ((toolStart(s) /\ ~bumpStart(s)) \/ toolReturn(s)) =>
            toolOutputExpanded'[s] = toolOutputExpanded[s]
       /\ bumpStart(s) => ~toolOutputExpanded'[s]
       /\ toolOutputExpanded'[s] # toolOutputExpanded[s] =>
            \/ toolOutputExpanded' = toggleToolHistory(s) /\ nextCall' = nextCall
            \/ bumpStart(s)]_vars

\* the state of a session the teardown clears, the expansion state apart
renderStateClear(s) ==
  /\ taskListMessages[s] = 0 /\ toolOutputMessages[s] = 0 /\ statusMessages[s] = 0
  /\ accumulatedToolOutput[s] = << >> /\ ~textMessageAfterTool[s]

\* a step that flips the expansion state of s outside a render call and is
\* not the teardown of the session's state: toggleToolHistory and the rerender
toggleStep(s) ==
  /\ toolOutputExpanded'[s] # toolOutputExpanded[s]
  /\ inFlight' = inFlight /\ nextCall' = nextCall
  /\ renderStateClear(s)' => renderStateClear(s)

\* C21: toggling the tool history and re-rendering creates no message and
\* leaves the registered tool output message and the accumulated sequence as
\* they are; the only Slack call it makes is an update of the registered
\* message, and it makes none when no tool output message is registered.
C21_ToggleFrame ==
  [][\A s \in Sessions :
       toggleStep(s) =>
         /\ posted' = posted /\ deletedTs' = deletedTs
         /\ toolOutputMessages' = toolOutputMessages
         /\ accumulatedToolOutput' = accumulatedToolOutput
         /\ toolOutputMessages[s] = 0 => lastCall' = lastCall
         /\ lastCall' # lastCall =>
              /\ lastCall'.op = "update" /\ lastCall'.kind = "tool_output"
              /\ lastCall'.ts = toolOutputMessages[s]]_vars

\* five summaries in one message, whose older two were expanded by a click
C21_Witness ==
  \E s \in Sessions :
    /\ Len(accumulatedToolOutput[s]) = 5 /\ toolOutputExpanded[s]
    /\ Len(posted) = 1 /\ toolOutputMessages[s] = 1
    /\ inFlight[s] = NoCall /\ nextCall = 5
    /\ lastCall.op = "update" /\ lastCall.ts = 1
    /\ lastCall.blocks[2] = Button("Hide Older Calls", 0, s)

\* the steps of a render method m: its start, and the settling of a Slack
\* call it awaits, with the outcome recorded by the step
startOf(s, m) == inFlight[s] = NoCall /\ inFlight'[s].method = m
settleOf(s, m, branch, outcome) ==
  /\ inFlight[s].method = m /\ inFlight[s].branch = branch
  /\ inFlight'[s] # inFlight[s]
  /\ lastReturn'[s] = [method |-> m, branch |-> branch, outcome |-> outcome]
stepOf(s, m) ==
  startOf(s, m) \/ (inFlight[s].method = m /\ inFlight'[s] # inFlight[s])
postIssued(s, m, kind) ==
  /\ inFlight'[s].method = m /\ inFlight'[s].branch = "create"
  /\ lastCall'.op = "post" /\ lastCall'.kind = kind

\* C22: a status render updates the registered status message when there is
\* one and otherwise posts one, which is registered; when the update fails a
\* new message is posted, and registered as the status message.
C22_StatusSelfHeals ==
  [][\A s \in Sessions :
       /\ startOf(s, "updateStatus") =>
            IF statusMessages[s] # 0
            THEN /\ lastCall'.op = "update" /\ lastCall'.kind = "status"
                 /\ lastCall'.ts = statusMessages[s]
            ELSE postIssued(s, "updateStatus", "status")
       /\ settleOf(s, "updateStatus", "update", "ok") =>
            /\ inFlight'[s] = NoCall
            /\ statusMessages' = statusMessages /\ posted' = posted
       /\ settleOf(s, "updateStatus", "update", "throws") =>
            postIssued(s, "updateStatus", "status")
       /\ settleOf(s, "updateStatus", "create", "ok") =>
            /\ inFlight'[s] = NoCall
            /\ posted' = Append(posted, "status")
            /\ statusMessages'[s] = Len(posted')]_vars

\* C23: a task_list render updates the registered task list message when
\* there is one and otherwise posts one, which is registered; when the update
\* fails a new message is posted, and registered as the task list message;
\* no step of the render deletes a message or unregisters the task list.
C23_TaskListSelfHeals ==
  [][\A s \in Sessions :
       /\ startOf(s, "updateTaskList") =>
            IF taskListMessages[s] # 0
            THEN /\ lastCall'.op = "update" /\ lastCall'.kind = "task_list"
                 /\ lastCall'.ts = taskListMessages[s]
            ELSE postIssued(s, "updateTaskList", "task_list")
       /\ settleOf(s, "updateTaskList", "update", "ok") =>
            /\ inFlight'[s] = NoCall
            /\ taskListMessages' = taskListMessages /\ posted' = posted
       /\ settleOf(s, "updateTaskList", "update", "throws") =>
            /\ postIssued(s, "updateTaskList", "task_list")
            /\ taskListMessages' = taskListMessages /\ posted' = posted
       /\ settleOf(s, "updateTaskList", "create", "ok") =>
            /\ inFlight'[s] = NoCall
            /\ posted' = Append(posted, "task_list")
            /\ taskListMessages'[s] = Len(posted')
       /\ stepOf(s, "updateTaskList") =>
            /\ deletedTs' = deletedTs
            /\ taskListMessages[s] # 0 => taskListMessages'[s] # 0]_vars

\* the update of the first task list message failed and the message posted
\* instead is the registered one
C23_Witness ==
  \E s \in Sessions :
    /\ posted = <<"task_list", "task_list">>
    /\ taskListMessages[s] = 2
    /\ nextCall = 2 /\ inFlight[s] = NoCall
    /\ lastReturn[s] = [method |-> "updateTaskList", branch |-> "create", outcome |-> "ok"]

\* C24: when the in-place update of a tool_output render fails, the rendered
\* content is posted as a new message, and a post that succeeds is registered
\* as the session's tool output message.
C24_ToolOutputDegrades ==
  [][\A s \in Sessions :
       /\ settleOf(s, "updateToolOutput", "update", "throws") =>
            /\ postIssued(s, "updateToolOutput", "tool_output")
            /\ lastCall'.blocks = lastCall.blocks
       /\ settleOf(s, "updateToolOutput", "create", "ok") =>
            /\ posted' = Append(posted, "tool_output")
            /\ toolOutputMessages'[s] = Len(posted')]_vars

\* C25: when the delete of the old tool output message fails during a bump,
\* the method goes on to post the new message; a post that succeeds is
\* registered as the session's tool output message, the flag is reset and the
\* method returns.
C25_BumpSurvivesDeleteFailure ==
  [][\A s \in Sessions :
       /\ settleOf(s, "updateToolOutput", "delete", "throws") =>
            /\ postIssued(s, "updateToolOutput", "tool_output")
            /\ deletedTs' = deletedTs
       /\ (settleOf(s, "updateToolOutput", "create", "ok")
             /\ inFlight[s].ts # 0 /\ inFlight[s].ts \notin deletedTs) =>
            /\ inFlight'[s] = NoCall
            /\ posted' = Append(posted, "tool_output")
            /\ toolOutputMessages'[s] = Len(posted')
            /\ ~textMessageAfterTool'[s]]_vars

\* a tool output, a text, and a tool output whose delete of message 1 failed:
\* message 1 is still there and message 3 is the registered one
C25_Witness ==
  \E s \in Sessions :
    /\ posted = <<"tool_output", "text", "tool_output">>
    /\ deletedTs = {}
    /\ toolOutputMessages[s] = 3 /\ ~textMessageAfterTool[s]
    /\ accumulatedToolOutput[s] = <<"1", "3">>
    /\ lastReturn[s] = [method |-> "updateToolOutput", branch |-> "create", outcome |-> "ok"]

TextMethods == {"postTextMessage", "postRichMessage"}

\* C26: a text render posts a message of its own and, once the post has
\* succeeded, the flag of the session is set; no step of it changes a
\* registered status, task list or tool output message or the accumulated
\* sequence; and a tool_output render that starts with the flag set and a
\* tool output message registered posts a new message instead of updating.
C26_TextFrame ==
  [][\A s \in Sessions :
       /\ \A m \in TextMethods :
            /\ startOf(s, m) => postIssued(s, m, "text")
            /\ settleOf(s, m, "create", "ok") =>
                 /\ inFlight'[s] = NoCall
                 /\ posted' = Append(posted, "text")
                 /\ textMessageAfterTool'[s]
            /\ stepOf(s, m) =>
                 /\ slotVars' = slotVars
                 /\ accumulatedToolOutput' = accumulatedToolOutput
                 /\ deletedTs' = deletedTs
       /\ (startOf(s, "updateToolOutput") /\ textMessageAfterTool[s]
             /\ toolOutputMessages[s] # 0) =>
            /\ postIssued(s, "updateToolOutput", "tool_output")
            /\ toolOutputMessages'[s] = 0]_vars

\* a rich text was posted after two tool outputs: two messages, the tool
\* output message still registered, the flag set
C26_Witness ==
  \E s \in Sessions :
    /\ posted = <<"tool_output", "text">>
    /\ toolOutputMessages[s] = 1 /\ accumulatedToolOutput[s] = <<"1", "2">>
    /\ textMessageAfterTool[s] /\ inFlight[s] = NoCall
    /\ lastReturn[s] = [method |-> "postRichMessage", branch |-> "create", outcome |-> "ok"]

\* C27: when a tool_output render ends, by returning or by raising, the flag
\* of the session is clear.
C27_FlagClearAfterToolOutput ==
  [][\A s \in Sessions : toolReturn(s) => ~textMessageAfterTool'[s]]_vars

\* the state of the window machine a session's maps stand for
WindowState(s) ==
  IF toolOutputMessages[s] # 0
  THEN (IF textMessageAfterTool[s] THEN "INTERRUPTED" ELSE "TOOL_OPEN")
  ELSE (IF textMessageAfterTool[s] THEN "interrupted, no window" ELSE "FRESH")

\* C28: between two renders a session is FRESH, TOOL_OPEN or INTERRUPTED, never
\* 'flag set and no tool output message'; a tool_output render whose Slack
\* call succeeded ends in TOOL_OPEN; a text render that posted leads from
\* TOOL_OPEN or INTERRUPTED to INTERRUPTED, and no text transition leaves FRESH.
C28_WindowStateMachine ==
  [][\A s \in Sessions :
       /\ inFlight'[s] = NoCall => WindowState(s)' \in {"FRESH", "TOOL_OPEN", "INTERRUPTED"}
       /\ (toolReturn(s) /\ lastReturn'[s].outcome = "ok" /\ toolOutputMessages'[s] # 0) =>
            WindowState(s)' = "TOOL_OPEN"
       /\ (\E m \in TextMethods : settleOf(s, m, "create", "ok")) =>
            /\ WindowState(s) \in {"TOOL_OPEN", "INTERRUPTED"}
            /\ WindowState(s)' = "INTERRUPTED"]_vars

\* C29: a tool_output render appends its summary at the end of the session's
\* sequence or, on a bump, replaces the sequence by that summary alone; the
\* sequence changes by nothing else but the teardown, which empties it.
C29_SequenceAppendOnly ==
  [][\A s \in Sessions :
       /\ toolStart(s) =>
            accumulatedToolOutput'[s] =
              IF bumpStart(s) THEN <<Summary(nextCall')>>
              ELSE accumulatedToolOutput[s] \o <<Summary(nextCall')>>
       /\ accumulatedToolOutput'[s] # accumulatedToolOutput[s] =>
            \/ toolStart(s)
            \/ accumulatedToolOutput'[s] = << >> /\ renderStateClear(s)']_vars

\* four calls left a tool output message, a status message and a text; the
\* fifth, a tool output, bumped and the sixth was appended to its window
C29_Witness ==
  \E s \in Sessions :
    /\ accumulatedToolOutput[s] = <<"5", "6">>
    /\ posted = <<"tool_output", "status", "text", "tool_output">>
    /\ toolOutputMessages[s] = 4 /\ statusMessages[s] = 2
    /\ inFlight[s] = NoCall /\ ~textMessageAfterTool[s]

(* ---------------- properties of the teardown ---------------- *)
\* C30: the finally block of every turn starts a timeout due five minutes
\* later; when it runs, at that time, the session holds no entry in the five
\* maps; no entry is removed in any other way, and no timeout is overdue.
C30_TeardownAfterFiveMinutes ==
  [][/\ \A t \in TurnIds :
          /\ (turnPc[t] = "exiting" /\ turnPc'[t] = "done") =>
               cleanupTimer'[t] = [pc |-> "armed", due |-> now + 5]
          /\ (cleanupTimer[t].pc = "armed" /\ cleanupTimer'[t].pc = "fired") =>
               /\ now = cleanupTimer[t].due
               /\ sessionMaps'[turnSession[t]] = {}
          /\ cleanupTimer'[t].pc = "armed" => cleanupTimer'[t].due >= now'
     /\ \A s \in Sessions :
          sessionMaps[s] \ sessionMaps'[s] # {} =>
            \E t \in TurnIds :
              /\ turnSession[t] = s
              /\ cleanupTimer[t].pc = "armed" /\ cleanupTimer'[t].pc = "fired"]_vars

\* the render state MessageManager keeps for a session
renderStateOf(s) ==
  <<taskListMessages[s], toolOutputMessages[s], statusMessages[s],
    accumulatedToolOutput[s], textMessageAfterTool[s], toolOutputExpanded[s]>>

\* a step in which no render call starts or settles and a slot, the sequence
\* or the interrupted flag of s changes: the teardown of s
cleanupStep(s) ==
  /\ inFlight' = inFlight /\ nextCall' = nextCall
  /\ <<taskListMessages[s], toolOutputMessages[s], statusMessages[s],
       accumulatedToolOutput[s], textMessageAfterTool[s]>>'
       # <<taskListMessages[s], toolOutputMessages[s], statusMessages[s],
           accumulatedToolOutput[s], textMessageAfterTool[s]>>

\* C31: cleanup of a session leaves it with no status, task list or tool
\* output message, no accumulated sequence, no interrupted flag and no
\* expansion state, and leaves the render state of every other session as it
\* was.
C31_CleanupClearsOwnSession ==
  [][\A s \in Sessions :
       cleanupStep(s) =>
         /\ renderStateClear(s)' /\ ~toolOutputExpanded'[s]
         /\ \A o \in Sessions \ {s} : renderStateOf(o)' = renderStateOf(o)]_vars

\* both sessions hold a tool output message, then the first is torn down
\* while the second keeps its message and its sequence
C31_Witness ==
  /\ renderStateClear("s1") /\ ~toolOutputExpanded["s1"]
  /\ toolOutputMessages["s2"] # 0 /\ accumulatedToolOutput["s2"] # << >>
  /\ \E i \in 1..Len(posted) : i # toolOutputMessages["s2"] /\ posted[i] = "tool_output"

\* turn t stands at an updateMessageReaction call of handleMessage and makes it
callStep(t) ==
  /\ turnPc[t] = "running" /\ at[t] \in ReactionSites /\ reacting[t].pc = "idle"
  /\ <<at[t], turnPc[t], reacting[t]>>' # <<at[t], turnPc[t], reacting[t]>>

\* the Slack name of the emoji the call is made with
proposed(t) == emojiToSlackName(siteEmoji(at[t]))

\* C32: a call of updateMessageReaction with the emoji that is tracked for the
\* session issues neither reactions.remove nor reactions.add and leaves the
\* tracked reaction as it is; the caller goes on at once.
C32_SameIndicatorNoOp ==
  [][\A t \in TurnIds :
       callStep(t) /\ proposed(t) = currentReactions[turnSession[t]] =>
         /\ sinkLog' = sinkLog
         /\ currentReactions' = currentReactions /\ reactions' = reactions
         /\ reacting'[t].pc = "idle"]_vars

\* a second message arrived while the first turn, whose thinking reaction is
\* tracked, was running: the thinking reaction of the second turn is a no-op
C32_Witness ==
  \E t \in TurnIds :
    /\ reacting[t].result = "same" /\ reacting[t].emoji = ThinkingFace
    /\ at[t] = "stream"
    /\ currentReactions[turnSession[t]] = "thinking_face"
    /\ sinkLog = <<sinkCall("add", turnSession[t], "thinking_face")>>

\* C33: a call with an emoji other than the tracked one first calls
\* reactions.remove for the tracked reaction, if there is one, and whatever
\* the outcome then calls reactions.add for the new one; when the add succeeds
\* or answers already_reacted the new reaction is tracked, and only then; when
\* it fails otherwise the tracked reaction stays; in every case the caller
\* goes on.
C33_ReplaceThenTrack ==
  [][\A t \in TurnIds :
       LET s == turnSession[t]
       IN /\ callStep(t) /\ proposed(t) # currentReactions[s] =>
               /\ currentReactions' = currentReactions
               /\ IF currentReactions[s] # ""
                  THEN /\ sinkLog' = Append(sinkLog, sinkCall("remove", s, currentReactions[s]))
                       /\ reacting'[t].pc = "remove"
                  ELSE /\ sinkLog' = Append(sinkLog, sinkCall("add", s, proposed(t)))
                       /\ reacting'[t].pc = "add"
          /\ reacting[t].pc = "remove" /\ reacting'[t] # reacting[t] =>
               /\ sinkLog' = Append(sinkLog, sinkCall("add", s, reacting[t].name))
               /\ reacting'[t].pc = "add"
               /\ currentReactions' = currentReactions
          /\ reacting[t].pc = "add" /\ reacting'[t] # reacting[t] =>
               /\ reacting'[t].pc = "idle"
               /\ at'[t] # at[t] \/ turnPc'[t] = "exiting"
               /\ \/ /\ reacting'[t].result = "set"
                     /\ currentReactions' = [currentReactions EXCEPT ![s] = reacting[t].name]
                     /\ reacting[t].name \in reactions'[s]
                  \/ /\ reacting'[t].result = "failed"
                     /\ currentReactions' = currentReactions]_vars

\* C37: when a call of updateMessageReaction has returned and no other call
\* of the session is under way, the reactions of the bot on the original
\* message are exactly the tracked one.
C37_TrackedIsApplied ==
  [][\A t \in TurnIds :
       LET s == turnSession[t]
       IN /\ reacting[t] # reacting'[t] /\ reacting'[t].pc = "idle"
          /\ \A o \in TurnIds : reacting'[o].pc = "idle"
          => reactions'[s] = IF currentReactions'[s] = "" THEN {}
                             ELSE {currentReactions'[s]}]_vars

\* turn t makes the updateTaskProgressReaction call of handleTodoUpdate
progressStep(t) ==
  /\ turnPc[t] = "running" /\ at[t] = "rendered" /\ reacting[t].pc = "idle"
  /\ <<at[t], reacting[t]>>' # <<at[t], reacting[t]>>

allCompleted(todos) == \A i \in 1..Len(todos) : todos[i] = "completed"
noneCompleted(todos) == \A i \in 1..Len(todos) : todos[i] # "completed"
someInProgress(todos) == \E i \in 1..Len(todos) : todos[i] = "in_progress"

\* with an empty task list the reaction is left alone
emptyListNoChange(t) ==
  newTodos[t] = << >> =>
    /\ reacting' = reacting /\ sinkLog' = sinkLog
    /\ currentReactions' = currentReactions /\ reactions' = reactions

\* C34 as stated: the reaction chosen for a task list that is not empty is the
\* check mark when all items are completed, the arrows when no item is
\* completed and at least one is in progress, and the clipboard in every
\* other case; an empty list changes nothing.
C34_ProgressAsStated ==
  [][\A t \in TurnIds :
       progressStep(t) =>
         /\ emptyListNoChange(t)
         /\ newTodos[t] # << >> =>
              reacting'[t].emoji =
                IF allCompleted(newTodos[t]) THEN WhiteCheckMark
                ELSE IF noneCompleted(newTodos[t]) /\ someInProgress(newTodos[t]) THEN Arrows
                ELSE Clipboard]_vars

\* C34 amended: the arrows are chosen whenever an item is in progress and not
\* all items are completed, whether or not some item is completed already.
C34_ProgressIndicator ==
  [][\A t \in TurnIds :
       progressStep(t) =>
         /\ emptyListNoChange(t)
         /\ newTodos[t] # << >> =>
              /\ allCompleted(newTodos[t]) => reacting'[t].emoji = WhiteCheckMark
              /\ ~allCompleted(newTodos[t]) /\ someInProgress(newTodos[t]) =>
                   reacting'[t].emoji = Arrows
              /\ ~allCompleted(newTodos[t]) /\ ~someInProgress(newTodos[t]) =>
                   reacting'[t].emoji = Clipboard]_vars

\* a task list with one item completed and one in progress was rendered and
\* the arrows were added to the message
C34_Witness ==
  \E t \in TurnIds :
    /\ newTodos[t] = <<"completed", "in_progress">>
    /\ at[t] = "todo" /\ reacting[t].emoji = Arrows /\ reacting[t].result = "set"
    /\ "arrows_counterclockwise" \in reactions[turnSession[t]]

\* the command of a Bash invocation, empty when the input has none
commandOf(c) == IF request[c].input.command = Undefined THEN EmptyStr
                ELSE request[c].input.command

\* a pattern 'Bash:P *' or 'Bash:C' matches the Bash invocation c
bashPatternMatches(pattern, c) ==
  /\ startsWith(pattern, BashPrefix) /\ request[c].toolName = Bash
  /\ LET rest == SubSeq(pattern, Len(BashPrefix) + 1, Len(pattern))
     IN IF endsWith(rest, SpaceStar)
        THEN LET P == SubSeq(rest, 1, Len(rest) - 2)
             IN commandOf(c) = P \/ startsWith(commandOf(c), P \o Space)
        ELSE commandOf(c) = rest

\* the permission handler returned allow without asking
allowedAtOnce(c) == requestPc[c] = "returned" /\ response[c] = Allow(request[c].input)

\* C35 as stated: an invocation is allowed exactly when some pattern of the
\* list is its tool name, or is a Bash pattern that matches its command.
C35_AllowAsStated ==
  \A c \in RequestIds :
    c <= nextRequest =>
      (allowedAtOnce(c) <=>
         \E i \in 1..Len(allowedTools) :
            \/ allowedTools[i] = request[c].toolName
            \/ bashPatternMatches(allowedTools[i], c))

\* C35 amended: besides, the pattern 'mcp__*' matches every tool whose name
\* starts with 'mcp__'.
C35_AllowPredicate ==
  \A c \in RequestIds :
    c <= nextRequest =>
      (allowedAtOnce(c) <=>
         \E i \in 1..Len(allowedTools) :
            \/ allowedTools[i] = request[c].toolName
            \/ bashPatternMatches(allowedTools[i], c)
            \/ allowedTools[i] = McpStar /\ startsWith(request[c].toolName, McpPrefix))

\* 'git s' was allowed at once by the only pattern 'Bash:git *'
C35_Witness ==
  /\ allowedTools = <<BashPrefix \o Git \o SpaceStar>>
  /\ nextRequest = 1 /\ request[1].toolName = Bash /\ request[1].input.command = GitStatus
  /\ allowedAtOnce(1)

\* a turn of session s is running
running(s) == \E t \in TurnIds : turnSession[t] = s /\ turnPc[t] = "running"

\* C36: while a turn of a session is running, no entry of the session's maps
\* (original message, tracked reaction, task list message, tool message and
\* accumulated tool output) is removed.
C36_TeardownSparesRunningTurn ==
  [][\A s \in Sessions :
       running(s) /\ running(s)' => sessionMaps[s] \subseteq sessionMaps'[s]]_vars

\* C38: a session is removed from the sessions map only when the last message
\* handled for it is more than maxAge old and none of its turns is running.
C38_OnlyIdleSessionsRemoved ==
  [][\A s \in Sessions :
       sessions[s] /\ ~sessions'[s] =>
         /\ lastMessage[s] + maxAge < now'
         /\ ~running(s)]_vars
====
